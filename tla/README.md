# A TLA+ model of pb-RPC

pb-RPC is a small RPC framework in C++: a client calls methods of protobuf
services over TCP connections that it keeps open; servers register in etcd, and
the client picks the server with the least load. All source paths below are
relative to the repository's root. The build sets no `NDEBUG`, so every `assert`
of the code is part of the program.

The project models the framework's own logic in TLA+, checks it with TLC on small
instances and proves the most important invariants with TLAPS for all instances.
`PROJECT.json` lists the components, the runs, the map from definitions to source
lines, the hazards, the findings and the theorems.

## 1. The system

### Components, their state and operations

| Component | State | Operations | Hard because | What makes it correct |
|---|---|---|---|---|
| `EventLoop` | `taskqueue_`, the eventfd `wakeupFd_`, `stop_` | `run`, `stop`, `runInLoop`, `queueInLoop`, `wakeup`, `handleWakeup` | other threads queue tasks while the loop sleeps or drains; one read of the eventfd swallows several wakeups | no task and no stop is forgotten; tasks keep their order |
| `ThreadPool`, `EventLoopGroup` | `taskqueue_`, `stop_`, the wait set of `condition_` | `addtask`, the worker's loop, `stop` | `notify` outside the mutex; event loops occupy workers for good; `stop` races sleeping workers | no lost wakeup, each task once, `stop` ends |
| `Time`, `TimeEvent` | `pending_events_`, the timerfd, `arrive_time_`, `is_cancled_` | `addTimerEvent`, `onTime`, `resetArriveTime`, `setCancled` | the timerfd is set outside the mutex by several threads | an event fires, once if it is one-shot, again and again if repeated, never after a cancel |
| `Channel`, `Epoll` | `events_`, `inepoll_`, the kernel's entry | `enableReading/Writing`, `disableWriting`, `remove`, `handleEvent` | unsynchronised read-modify-write from several threads; edge-triggered events, one callback per event | `epoll_ctl` never fails; no edge is lost for good |
| `Connection` (client), `RpcChannel`, `RpcController` | `write_dones_`, `read_dones_`, the two buffers, `disConnect`; per call its controller and timer | `CallMethod`, `pushSendMessage`, `sendMessage`, `onMessage`, `parseMsg`, `closeCallback`, the timeout and response callbacks | response, timeout, FIN and RST race; calls share a connection | a closure runs once with a final outcome; a request is executed at most once |
| `TcpServer`, `Connection` (server), `RpcDispatcher` | `conns_`, buffers, the pool's and the loop's queues | `newconnection`, `HandleMessage`, `OnMassage`, `dispatch`, `send`, `regSend`, `sendMessage`, `closeconnection`, `ClearClientTimerFunc` | main thread, loop thread and workers share the connection; partial reads and writes; the idle sweep | each request is executed and answered at most once, answered if the connection stays, the connection is released, error codes tell the truth |
| `ServerNodeManager` | `nodeMap`, `minHeap` with stale nodes, `staleCount` | `upsertNode`, `removeNode`, `getLowestCPUNode` | lazy deletion: the heap holds replaced and removed nodes | a query returns a listed server with the least load; the heap stays bounded |
| `Buffer` | `buffer_`, `readIndex_`, `writeIndex_` | `writeToBuffer`, `makeSpace`, `readFd`, `writeFd`, `retrieve` | move or grow; `readv` with a second area; index resets | it is a queue of bytes and grows only when needed |
| `TinyPBCoder` | none of its own | `encode`, `decode` | the stream is cut anywhere; data may look like frame delimiters | decoding inverts encoding and keeps frame boundaries |
| `TcpClient` | `server_conns_` (connection and `keepalive_count_` per server), the loop of the keepalive task | `getConnection`, the keepalive task, `stopLoop` | the task walks the map without its mutex while callers insert, and its callbacks keep references to the entries | a connection is given up only when it is silent or answers too late, and one whose server is gone is given up in the end |
| `RpcServerList`, `RpcDiscovery`, `RpcRegistry` | `server_list`, the etcd watch, keys with leases | `getServerAddr`, the put and delete callbacks, listing and watch, `registry` | gap between listing and watch; a watch that breaks loses events; events that do not parse; no lock around `server_list` | while the watch works, what etcd holds reaches the list and a query finds it |
| `MsgIdUtil` | `t_msg_id_no` | `GetMsgId` | the carry over the digits; wrap-around | two messages under way have different ids |
| `Acceptor`, `Socket`, `InterAddress` | – | `newConnection`, `Accept`; wrappers of system calls | `accept4` may fail | the assertion after it |
| `CConfig`, logging, error texts, generated code, examples | – | start-up, output | – | not modelled, see section 7 |

### How they interact

A server process has a main thread (the loop of the `Acceptor`, with the timer
that sweeps idle connections), some pool threads that run event loops for good and
some that take requests. A connection belongs to the loop that its fd selects.
`epoll` reports an event; the loop thread reads and decodes; the batch of requests
goes to the pool; a worker dispatches each request and hands the replies to the loop
with `runInLoop`; the loop encodes them, asks for `EPOLLOUT`, and writes when epoll
reports it. In a client process the callers' threads push requests into
`write_dones_` and enable writing themselves; the loop sends, installs the response
callbacks, reads responses and serves the calls' timers. The callers get their
connection from `TcpClient`, which asks `RpcServerList` for an address; a timer of a
loop of its own runs the keepalive task, and a thread of the etcd library runs the
callbacks that fill `RpcServerList`.

So the modules rest on each other: `RpcServer` takes the pool and the loop's queue
to be first in, first out and without loss, which `ThreadPool` and `EventLoop` show;
`RpcClient` takes it that an added timer comes due, which `Time` shows; both move
whole messages through the buffers, which `Buffer` and `TinyPBCoder` justify; and
both extend `Channel`. `RpcServerList` is composed with the specification that
`ServerNodeManager` implements, `Outbound` composes `MsgIdUtil` with `TinyPBCoder`, and `TcpClient`
takes from `RpcClient` that a call enables writing and holds its connection.

## 2. The modules

| Module | Models | Remarks |
|---|---|---|
| `EventLoop` | `net/EventLoop.cpp` | the loop thread step by step, any number of submitting threads, one stopping thread; the eventfd is a counter |
| `ThreadPool` | `common/ThreadPool.cpp`, `net/EventLoopGroup.h` | mutex, wait set and notifications explicit; spurious wakeups happen; `front()` of an empty queue, which C++ leaves undefined, gives `Garbage`; tasks are event loops (never return, submit requests) and requests |
| `Time` | `net/TIme.cpp`, `common/TimeEvent.*` | times are kept as distances from now that `Tick` counts down; each critical section and the `timerfd_settime` after it are separate steps |
| `Channel` | `net/Channel.cpp`, `net/Epoll.cpp` | every access to `events_` and `inepoll_` is a step of the calling thread (`SetChannelRead` and `SetChannelTest` are the two reads of `setChannel`); the kernel's entry is external |
| `RpcClient` | `rpc/rpc_channel.cpp`, `rpc/rpc_controller.cpp`, `net/Connection.cpp` (client) | extends `Channel`; server and network external and unconstrained |
| `RpcServer` | `net/TcpServer.cpp`, `net/Connection.cpp` (server), `rpc/rpc_dispatcher.cpp` | extends `Channel`; one connection from `Acceptor::newConnection` to its release; packets travel in two pieces, so reads end in the middle of one; service and method names are sequences of parts, which `parseServiceFullName` cuts; who holds the shared pointer is derived from where the threads are, and the last to drop it runs the destructor |
| `NodeDirectory` | – | abstract specification: last reported load per server, and a query for a least one |
| `ServerNodeManager` | `common/ServerNode.h` | the heap is a set whose top is any least element; nodes have an identity, as the code compares pointers; implements `NodeDirectory` |
| `Buffer` | `common/Buffer.*` | cells hold the number of the byte in the stream, so a lost, doubled or reordered byte shows |
| `TinyPBCoder` | `coder/*` | bytes, 32-bit fields in network order, `decode` with its scan |
| `TcpClient` | `net/TcpClient.cpp` | the entry of one server name, several callers, the keepalive task step by step; keepalives are told apart by their age in rounds; two ghosts record how long the cached connection has been silent and whether an answer came too late |
| `RpcServerList` | `common/RpcServerList.cpp`, `RpcDiscovery.h`, `RpcRegistry.h`, `registerService` | one service; extends `NodeDirectory`, whose operations stand for its `ServerNodeManager`; etcd is external, and a watch that breaks loses any number of the latest events |
| `MsgIdUtil`, `Outbound` | `common/msg_id_util.cpp`, and how `CallMethod` uses it | digits with a carry, against addition; composed with the coder |
| `MC*` | – | constants for TLC |
| `EventLoopProofs`, `RpcClientProofs`, `RpcServerProofs`, `ServerNodeManagerProofs`, `ThreadPoolProofs`, `TimeProofs` | – | theorems and their lemmas |
| `ByteStreamProofs` | – | the same for how bytes travel: `Buffer`, `TinyPBCoder` and `MsgIdUtil` (in `Outbound`) together |
| `ServerLookupProofs` | – | the same for how a client finds its server and connection: `RpcServerList` and `TcpClient` together |

Variables and actions have the names of the members and methods they stand for,
where there is one (`write_dones_`, `OnMessage`, `regSend` as `RegSend`). A method
that a second thread can interrupt between two accesses to shared state is split
there; one that runs under a lock, or on data only its thread touches, is one
action. Behaviour that C++ leaves undefined is a choice: two unsynchronised writes
of `events_` interleave; a loop that handles an event of a connection another
thread has destroyed may end the process (`dead = "freed"`) or go on; a write to a
socket that is shut down raises SIGPIPE, which nothing handles (`dead =
"sigpipe"`); a failed `assert` ends the process (`dead = "assert"`). `crashed` in `TcpClient` and
`dead` in `RpcServerList` are the end that a reference to an erased map entry, a destroyed
connection or a null node can lead to.

## 3. What the runs check

Deadlock is checked in every run; states where the system may rest have an
explicit stuttering action that says why.

### Passing runs

- **EventLoop** (two submitters, two tasks each, one stopper). `NoLostTask`: a queued task
  always has a wakeup on its way or a loop that is about to drain. `NoLostStop`: a
  loop in `epoll_wait` that was told to stop has one too, although `handleWakeup` can
  swallow the wakeup of `stop`. `TasksInOrder`: what ran followed by what is queued is, per
  thread, 1..n. `QueuedRuns` and `StopEndsRun` are the liveness counterparts. Two tasks per
  thread are enough for a task queued between the read of the eventfd and the drain
  and another after it.
- **ThreadPool** (three workers, one event loop, three requests).
  `NoLostWakeup` compares queued tasks with awake workers and notifications under way;
  `EachTaskOnce`: every submitted task is queued, held or
  done, only one of these, and nothing else is ever held: no worker takes from an empty queue; `QueuedStarts`: it is started, unless the pool is stopped. That needs
  more workers than event loops, which the program's configuration provides.
  `StopReachesWorkers`: `stop()`, which takes no lock, ends every worker but one that is
  between the predicate and its sleep.
- **Time** (a repeated event and two timers). `NeverUnarmed`: no event waits with the
  timerfd at rest. `OneShotOnce`, `RepeatedKept`, `CancelledSilent` and `EventFires` as their names say. With intervals
  1 and 2 events come due together, one after another, and while another thread
  is between its critical section and `timerfd_settime`.
- **ServerNodeManager** (two servers, two loads, five nodes, threshold two). `ImplementsDirectory`: the lazily
  cleaned heap refines `NodeDirectory`. `HeapBounded`: stale nodes do not pile up. `ListedInHeap` and `QueryReturns`: the query's loop
  under the lock ends with a listed server. The threshold of two lets the rebuild
  happen several times within five nodes.
- **RpcClient** (two calls on one connection, a send buffer for one request).
  `ClosureAtMostOnce`, `OutcomeFinal`: response and timeout race, the user is told once, and afterwards a success stays a
  success and a failure a failure (its error code may still be overwritten, `rpc_channel.cpp:112` and `:119`).
  `SuccessIsServed`: a closure that sees no error was answered with success. `ResponseExpected`: a response always finds its
  callback. `ExecutedAtMostOnce`: the server gets a request at most once. `CallReports`: every call that armed its timer
  reports back whatever the server and the network do, except where the code returns
  without running the closure (a response that does not parse).
- **RpcServer** (two workers) and **RpcServerLive** (one), each also with `workThread_` 0, two requests,
  a send buffer for one reply. `AtMostOnce`: at most one execution, and the request or its reply is in at most
  one place. `NothingLost`: on a live connection it is in one. `CodeTruthful`: code 0 means that the method ran, an error
  that is the caller's fault that it did not. `RequestAnswered`: a complete request is answered unless the client
  leaves, the connection is swept or the process ends; this holds although `handleEvent`
  drops write edges, because a `regSend` follows every read. `ConnectionReleased`: a connection the client has
  left is destroyed, whoever drops the last reference.
- **Buffer** (initial size 3, second area 2, writes up to 5, 12 bytes in all). `StreamKept`: readable bytes are the ones
  written and not taken. `NoWaste`: growth only when the contents would not fit, and to less than
  twice their size. The sizes make every branch of `makeSpace` and `readFd` happen several times.
- **TcpClient** (two callers, two connections). `DropsOnlySilent`: the keepalive task gives a
  connection up only after three rounds without any answer on it, whoever replaces
  the entry between its unlocked loops and its critical sections. The one exception is
  part of the property: `popReadMessage` takes the callback away after half of `timeout_`, an
  answer that comes later is not noticed, and a server that always answers late is given
  up; without the exception TLC refutes the property. `DeadIsDropped`: a
  connection whose server is gone, or never accepted it, does not stay cached for
  ever, although `getConnection` never looks at `disConnect`. With two connections one replaces the
  other while keepalives of the first are under way, and is inserted after the first
  was given up.
- **RpcServerList** (two servers, two loads, three starts, three events under way). `StoreReflected`: while
  the watch works, the client has, or is about to have, the last load of every
  server in etcd. `RegisteredIsFound`: `getServerAddr`, which uses the node it finds without a test, finds
  one whenever a server in etcd was listed or its report handled. `NewServerListed`: a server that registers is listed in the
  end. All three speak of the time until the watch breaks: then events under way are lost, `callBack` only logs the
  error, and the list is not updated any more. Three starts let a server end, lose its lease and come back, and both be
  under way at once.
- **TinyPBCoder** (two packets of four kinds, one run of noise, cuts anywhere; ids of two digits up to 2). `IdsCount`: unless
  the numbers are used up, `GetMsgId` adds one, so that ids of messages under way differ. `RoundTrip`: what is decoded is what
  was encoded. `InSync`: after `decode` the buffer holds a proper prefix of the next packet and nothing else.
  Among the packets is one whose data looks like the start and the end of a packet.

The bounds named in the configurations are `SndCap` (messages the socket's send buffer
takes), `MaxTasks`, `MaxNodes`, `MaxLen`, `MaxBytes`, `MaxPackets`, `MaxNoise`, `MaxStarts`, `MaxEvents`, the set `Conns` of connections
that can be opened, `g_msg_id_length` and `MaxDigit` (10 and 9 in the code), and within `TcpClient` `MaxAge` (older keepalives
are told apart no further); the interactions that matter are between two
calls, two workers, two pieces of a packet or two threads in `Time`, and all of
them occur within these bounds.

A `TypeOK` documents every module and is a lemma of the proofs; only `Buffer` checks it in a
run, where it says that the indices stay within the buffer.

### The run that finds a disagreement

`RpcClientAssert` checks `EpollCtlSucceeds`, what the assertions in `net/Epoll.cpp` state: two callers enable writing on a
fresh connection, both add it to epoll, and the second fails its assertion. The
finding in `PROJECT.json` quotes it. In the passing runs of the same module the
process may end at this point, and their properties say so (`dead`).

At the end of some modules are further statements of the source that TLC refutes when
they are added to the configuration named; no run is kept for them:

| Module, configuration | Property | What the code does |
|---|---|---|
| `ThreadPool`, `ThreadPool.cfg` | `StopEndsWorkers` | `stop()` notifies without the mutex; a worker between predicate and sleep misses it and `join` waits for ever |
| `ThreadPool`, `ThreadPool.cfg` | `StopRunsTasks` | workers test `stop_` before the queue: queued requests are dropped |
| `RpcClient`, `RpcClient.cfg` with `SndCap = 2` | `PushedIsSent` | a request can stay in `write_dones_` on a healthy connection: `sendMessage` turns writing off, or `handleEvent` drops the edge |
| `RpcServer`, `RpcServerLive.cfg` | `FinAfterReplies` | the sweep of idle connections sends FIN although replies are still to come |
| `RpcServer`, `RpcServer.cfg` | `AssertionsHold` | the loop serves a new connection before the main thread has recorded `inepoll_`, and adds it again; or `accept4` fails |
| `RpcServer`, either, with a packet for a method the service lacks | `MethodNotFound` | an unknown method is reported as an unknown service (`rpc/rpc_dispatcher.cpp:41`, `common/error_code.h:22`) |
| `Time`, `Time.cfg` | `ArmedForHead` | a head that is already due arms the timerfd for the configured timeout (30 s), and an older interval can overwrite a shorter one |
| `TcpClient`, `TcpClient.cfg` | `HeartbeatIsSent` | nobody enables writing for a keepalive: on an idle connection it is never sent, and the healthy connection is given up after three rounds |
| `TcpClient`, `TcpClient.cfg` | `ConnectedIsUp` | `select` finds a refused connection writable, and `SO_ERROR` is asked for only when it is not: the dead connection is cached |
| `TcpClient`, `TcpClient.cfg` | `NothingDangles` | callbacks of keepalives use map entries that were erased; the task uses a connection that a caller has replaced |
| `RpcServerList`, `RpcServerList.cfg` | `DownIsDelisted` | a delete event carries no value, so no ip and port can be parsed and nobody is removed: servers that are gone stay listed |
| `RpcServerList`, `RpcServerList.cfg` | `NodeNeverNull` | a query between the creation of a `ServerNodeManager` and its first node dereferences null |
| `RpcServerList`, `RpcServerList.cfg` | `NoneMissed` | a server that registers between listing and watch, or before a listing that fails, is never seen |

## 4. Fairness

Weak fairness is assumed of every thread of the program: the operating system runs a
thread that can run. In `EventLoop` a loop that sleeps in `epoll_wait` is promised nothing
but the eventfd: no socket has to become ready. `ThreadPool` asks for strong fairness of taking the mutex, since a
worker competes for it with the others and each holds it briefly. In `Time` the clock goes on. `RpcClient`
assumes that the timer of a call comes due, which `EventFires` of `Time` shows, and nothing at all
of the server or the network. `RpcServer` assumes that a client which is there reads
its replies, and nothing else of it: it need not finish a request it has begun.
In `TcpClient` callers and the keepalive task go on; the loop of a connection is promised nothing, as it may have lost
the edge for writing, the peer need not answer and callers need not succeed. In `RpcServerList` the constructor and the callbacks go on; servers, etcd
and queries promise nothing.
Nobody has to submit tasks, stop loops, create or cancel events.

## 5. What is proved

All theorems hold for every value of the constants, under the assumptions named in
the modules: event, call, connection, server and thread sets are any sets (finite
where they are counted: workers, servers), with the loop thread and the placeholders apart from their
members; intervals, timeouts and buffer capacities are positive; sizes are natural
numbers; packets have any contents whose length and error code fit the code's `int32_t` (`LengthAssumption`, `PacketType`), noise is
any bytes but the start byte, ids have any positive length and digits up to at most 9.

- `EventLoopProofs`: `NothingLost` and `StopNotLost`: `NoLostTask /\ NoLostStop` is inductive given the types. The argument is the
  order in the code: push before `wakeup`, read of the eventfd before the drain, and
  a test of `stop_` between any two waits. `RunInOrder` (`TasksInOrder`) rests on `OrderInv`: what ran, what is being
  drained and what is queued, put end to end, is sorted per thread and complete.
- `ThreadPoolProofs`: `WakeupNotLost` needs to know who has the mutex: `LockInv` (it is held from the lock to the sleep
  or the pop), `BlockInv` (between predicate and sleep the queue stays empty, and between predicate and pop it keeps a task,
  since push and pop need the lock) and `Hands` (who has a task, and that only loops submit). Every push is then matched by a
  notification on its way, and every notification by a worker that wakes.
  `TaskOnce` (`EachTaskOnce`) rests on `OnceInv`: no task is in two places, all submitted tasks are in one, and the
  places add up; `TakesTask` shows that `front()` finds a task.
- `TimeProofs`: `TimerArmed`: `NeverUnarmed` is inductive: whoever adds to an empty map sets the
  timerfd, and `onTime` sets it again after reading it. `OneShot` needs `OnceInv`, which says where an
  event can be once added (in the map or in `tasks`, never both and never after it ran), and `RepeatedStays`
  needs `KeptInv`: `tmps` is empty outside the loop that adds events again, and repeated events are never
  cancelled. `CancelledStaysSilent` is an action property; `SilentInv` says that callbacks are collected only while
  the loop thread is inside `onTime`, where no response can cancel them.
- `RpcClientProofs`: `ClosureOnce`: "at most once" is not inductive. `ClosureInv` adds `OnePlace` (a request is not yet
  pushed, once in `write_dones_`, or in `read_dones_`) and `NotRunYet` (while it is in one of
  these, or its timer can fire, the closure has not run unless the call is marked
  cancelled, which the response callback tests). `WayInv` follows a request through five places (output
  buffer, wire, server, wire back, input buffer): it is in one at most, and its callback is in
  `read_dones_` meanwhile, which gives `CallbackInstalled`; `ExecInv` adds that a request still on this side was not executed and gives `RequestOnce`;
  `OutcomeInv` relates the controller's error to the reply on its way and gives `SuccessTruthful` and the action property `OutcomeStays`.
- `RpcServerProofs`: `RequestAtMostOnce` (`AtMostOnce`), `RequestNotLost` (`NothingLost`), `ReplyTruthful` (`CodeTruthful`) and `DestroyedWasClosed`, from one
  invariant, `IInv`, that TLC also checked on the instance of the `RpcServer` run. A request
  passes through five places: `Stream` (`inputbuffer_` and what is still in the socket), the batches of the `pool`,
  those the workers hold (`Held`), the replies in the loop's `taskqueue_` and those encoded (`Replies`: received, in
  the socket, in `outputbuffer_`). None of the properties is inductive, because they say nothing of where a request
  will be next:
  - `StreamInv`: the stream alternates heads and tails, and each tail is in it once. Without it the packets that
    `Decoded` takes from every other piece could be anything; `PairedDrop` shows that they are exactly the requests
    whose tails leave the stream.
  - `OnceInv` and `PlaceInv`: a request is once in its place, in no two places, and in none before it was sent in
    full. So a hand-over (decode, `WorkerTake`, `OnMassage`, `regSend`, a write) moves it and cannot double it.
  - `ExecInv`: it has not been executed while it is before or at a worker; hence the one call of the dispatcher
    is the first. `CodeInv`: replies under way tell the truth, not only those received; `DispatchTruthful` is
    the dispatcher's part, over all its error paths.
  - `HeldInv`: `conns_` holds the connection until `closeCallback`, which runs after `disConnect` was set. It gives
    `DestroyedWasClosed`, and is why a reply task that outlives the connection loses nothing that was promised.
  - `LossInv`: while the connection is up, every request is unsent or in one of the places.

  The last part translates: `Places(r)` is empty or a single place for each of the five (`StreamSingle`,
  `PoolSingle`, `WorkSingle`, `TaskSingle`, `ReplySingle`). Only `Packet` having packets for values, finitely many workers apart from `Main`
  and `Loop`, and a positive `SndCap` are assumed. `TypeCorrect` adds the types of the remaining variables.
- `ServerLookupProofs`: `OnlySilentDropped`: `CountIsSilence` says that, unless an answer came too late, the count of the cached entry never
  exceeds its rounds of silence, however insertions and answers on replaced connections come in between.
  `EtcdReflected` (`StoreReflected`) rests on `ReflectInv`: before the watch, what etcd holds is listed or still in the
  listing, once; while the watch works its last put is in the events or in the list. `RegisteredFound` adds `ListedIsKnown`: a
  listed server's service is known and past its first put (`CreateHandlesPut`: inside a put the event it handles is still at the
  head, even if the watch breaks meanwhile).
- `ServerNodeManagerProofs`: `ListedFound`: the current node of a listed server is in the heap, which is inductive together
  with there being one current node for each server (`ListInv`). With it every step
  maps to a step or a stutter of `NodeDirectory` (`LazyDeletionInvisible`, the refinement). `HeapStaysBounded` needs `StaleCounted`: `staleCount` is
  never lower than the number of stale nodes, although the query's pops are not
  subtracted.
- `ByteStreamProofs`, `Buffer`: `TypeCorrect`, `QueueOfBytes`, `GrowsForNeed`: types and `StreamKept` are inductive together. `Holds` states that
  a buffer with given components holds the bytes lo+1..hi; lemmas show that putting,
  resizing and moving keep it, so `writeToBuffer` extends it and every action follows.
  `GrowsForNeed` is an action property on top of that.
- `ByteStreamProofs`, coder: `PacketsRoundTrip` (`RoundTrip`), `StaysInSync` (`InSync`) and `CoderTypeCorrect`. What has been decoded says nothing
  of what is still to come, so neither is inductive. `CoderInv` looks at the bytes that are not decoded, `inputbuffer_` and
  `stream` as one sequence: `Laid` gives a place to every packet sent and not delivered; each is there as `encode`
  wrote it, they do not overlap and come in order, and every start byte is inside one of them. `Between` adds that outside of
  `decode` the buffer begins with the next packet, which is not complete, or is empty. TLC checked `CoderInv` on a smaller
  instance of the run before it was proved.
  - Sending (`EncodeStep`, `NoiseStep`) extends the sequence at its end, a read (`ArriveStep`) moves the border between the two
    parts and leaves the sequence as it is: this is why the cuts do not matter.
  - `ScanResult`: the scan passes over bytes outside of packets, since none is a start byte, and stops at the first packet,
    whether it is complete or not; a start byte in its data is never looked at. It finds it whole exactly if its last byte has arrived.
  - `EncodedBytes` gives the place of each field in what `encode` writes, `Int32Read` undoes `appendInt32`, and
    `ParsedPacket` puts them together: what is parsed at the place of a packet is the packet, with `parse_success`. That the
    length stays below 2^31 is needed here: the first byte of a field would be taken for a sign.
  - `LaidDrop`: what `retrieve` drops is the packet, or what comes before it, and the others move to the front.
- `ByteStreamProofs`, ids: `IdsCountUp` (`IdsCount`). `CarryPlace`: an id other than the highest has a last digit that is not the
  highest, so the code's unsigned index never passes 0. `Number` is a recursive function; the provers cannot use the library's induction
  theorems, so `ValuesExist` (it is defined), `ValuesAt` (its values are natural numbers) and `CarryAddsOne` (equal before the carry,
  one more from there on) each look at the smallest place that would be an exception, which exists by `LeastNat`.

## 6. What is only model-checked

Everything about liveness and fairness: `QueuedRuns`, `StopEndsRun`, `QueuedStarts`, `StopReachesWorkers`, `EventFires`, `QueryReturns`, `CallReports`,
`RequestAnswered`, `ConnectionReleased`, `DeadIsDropped`, `NewServerListed`: TLAPS does not prove liveness under fairness. These are
shown for the instances above. Every other property of a passing run is also a theorem.

## 7. What is not modelled

- `CConfig`, logging, error texts, generated protobuf code, the example programs: no
  state of the framework. `echoServer` refers to interfaces that are gone.
- `Socket` and `InterAddress` but for `Accept`: options of sockets and conversions of addresses. Construction
  of `TcpServer` and `Acceptor`.
- Several connections in one `conns_` or `server_conns_`: the models follow one connection of a server and one server name of a
  client. The map's own structure under concurrent insertion of other names (an iterator
  of the keepalive task over a rehashed map, `server_list` without a lock) is undefined behaviour of
  the container; what it can lead to within one entry is modelled.
- The arithmetic of `CpuUsage`: any load can be reported.
- Services inside a protobuf package: `parseServiceFullName` cuts names at the first dot, and the channel sends
  the full name; names with more parts are in the domain of the definition but not in the
  configurations, since the repository's services have no package.
- Methods without a caller: `deleteTimerEvent`, `disableReading`, `disableAll`, `useOneshot`, `RpcController::Reset`.
- `TinyPBCoder` is checked and proved on streams that `encode` wrote, with noise that contains no start byte between
  packets; `check_sum_` is never computed by the code.
- The connection's last read time: the sweep may find any connection idle.
- Past undefined behaviour (use of a destroyed connection or map entry, a null node) nothing is
  claimed.

## 8. Plan

Done, in this order: `EventLoop`, `ThreadPool`, `NodeDirectory` and `ServerNodeManager`, `Channel`, `RpcClient`, `Time`, `RpcServer`, `Buffer`, `TinyPBCoder`; then `TcpClient`,
`RpcServerList`, `MsgIdUtil` with `Outbound`, accept and the dispatcher's names in `RpcServer`, and the proofs above, those of the coder and
the ids last.

Worth doing next: a model of `TcpServer` with two connections that share a loop, once the descriptor of one is reused
for the other.
