# Verification of async-berkeley

TLA+ models of the `io` library in `src/include/io`: an event loop around
`poll(2)` (`poll_multiplexer`), the senders it serves, the socket types they work
on, and the two example programs. TLC checks the models on small instances; TLAPS
proves the safety results, and the refinements, for every instance.

## Inventory

| component | state | operations | interacts with |
|---|---|---|---|
| `basic_poll_multiplexer` (`execution/impl/poll_multiplexer_impl.hpp`) | interest list `list_`, per-descriptor `demux_` (read queue, write queue, raw `socket` pointer), `mtx_`; each operation state: handler, socket, `demux` pointer, trigger | `set`, `connect`, `start`, `complete`, `wait_for` | called by any thread; completions run the program's code inside `wait_for`; reads and writes `socket_handle::error_` without the lock |
| `poll_`, `remaining_duration` (same file) | `duration`, `start` | poll, retry after `EINTR` | `wait_for` |
| `intrusive_task_queue` (`execution/multiplexer.hpp`) | `next` and `tail` pointers | `push`, `move_back`, `pop`, `is_empty` | the demultiplexers and the ready queue of `wait_for` |
| asynchronous operations (`socket/detail/async_operations.hpp`) | the `fairness` counter, `error_` of the handle | `accept`, `connect`, `recvmsg`, `sendmsg` | try the system call, then `set` on the executor |
| `socket_handle` (`socket/impl/socket_handle_impl.hpp`) | `socket_`, `error_`, `mtx_` | construct, move, swap, `set_error`, destroy | shared by senders, operation states and dialogs |
| `message_buffer`, `socket_message`, `buffer_iterator` | sequence of buffers | `push_back`, `+=`, `empty`, iteration, conversion to a native header | `recvmsg`, `sendmsg` |
| `small_functor` | inline storage, vtable pointer | construct, copy, move, swap, call, destroy | the handler of an operation |
| synchronous operations (`socket/detail/sync_operations.hpp`) | none | one system call each, four with an `EINTR` loop | asynchronous operations |
| `executor`, `basic_triggers`, `socket_dialog` | `async_scope`, shared and weak pointers | `set`, `push`, `emplace`, `on_empty`, `wait_for` | forwards to the multiplexer |
| `socket_option`, `socket_address` | storage and the size that counts | construct, span, compare | addresses and options of system calls |
| `examples/tcp_echo.cpp` | a message and a buffer per connection | `make_server`, `acceptor`, `reader`, `writer` | dialogs; clients over TCP |
| `examples/async_ping_pong_client.cpp` | two counters, one shared receive buffer | `run`, `send_ping`, `wait_for_pong` | a dialog; a peer over TCP |
| customization points, concepts | none | - | - |

What is hard to test: two or more threads between the unlocked reads of `error_`,
the two critical sections of an operation (`connect`, `start`) and the two of
`wait_for`; poll conditions the kernel adds unasked; exceptions in the middle of
the dispatch loop; errors that stay on a handle; signals that cut a timed wait or a
`connect`; swaps of the same handles by several threads; objects kept in raw bytes;
partial transfers over scattered buffers; peers that both write before they read;
operations whose executor is let go; chains of handlers that a single error ends. `PROJECT.json` lists each hazard at
its line with the properties about it.

## Modules

| module | models | kind |
|---|---|---|
| `PollMultiplexer` | the multiplexer, its threads, the kernel's poll conditions | detailed specification |
| `OperationQueues` | first-in first-out lines of operations, taken line by line by any number of workers | abstract specification |
| `PollMultiplexerRefinement` | the mapping between the two | refinement |
| `PollMultiplexerProofs` | | theorems |
| `AsyncOperations` | eager `accept`, `connect`, `recvmsg`, `sendmsg` on `PollMultiplexer` | composition |
| `AsyncOperationsProofs` | | theorems |
| `IntrusiveTaskQueue`, `TaskQueues` | the pointer-level queue and the queues it promises | detailed and abstract |
| `IntrusiveTaskQueueProofs` | | theorems |
| `PollTimeout` | the retries of `poll_` (theorems in `PollMultiplexerProofs`) | specification |
| `SocketHandle`, `SocketOwnership` | `socket_handle` access by access, and descriptors with one owner | detailed and abstract |
| `SocketHandleProofs` | | theorems |
| `SmallFunctor`, `FunctorCells` | `small_functor` on raw storages, and variables with value semantics | detailed and abstract |
| `SmallFunctorProofs` | | theorems |
| `MessageBuffer` | `message_buffer`, `socket_message`, `buffer_iterator` as operators | library of definitions |
| `EchoServer` | the echo server and its clients, on `MessageBuffer` | composition |
| `EchoServerProofs` | message buffers, the echo server | theorems |
| `SocketDialogs`, `SocketDialogsProofs` | triggers, executors, dialogs, and the system calls made through them | specification, theorems |
| `PingPongClient`, `PingPongProofs` | the ping-pong client and its peer | specification, theorems |
| `MC*` | symmetry sets and numeric constants for TLC; `MCParts` joins `IntrusiveTaskQueue`, `PollTimeout` and `SmallFunctor`, each running while the others rest | instances |

### PollMultiplexer

Variables carry the names of the members they stand for: `list[s]` is the set of
poll flags in the entry of descriptor `s` (an entry without flags is never
copied, so it equals no entry), `read_queue[s]`, `write_queue[s]` and
`demux_socket[s]` are `demux_[s]`, `error[s]` is `error_` with all errors other
than `EAGAIN` as one value `EFAIL`. `phase[o]` says where an operation state is;
`snap[t]` is the local list of `wait_for` (the copy, then the `revents`) and
`ready[t]` its `ready_queue`. `Ops` are used once: their number bounds the runs.

A step ends where another thread can see the difference. `connect` is
`ConnectCheck` (the load of `error_`) and `ConnectRegister` (the critical section
with `update_or_insert_event`); `start` is `StartCheck` or `StartInline`, then
`StartEnqueue` (or `StartNull`, the push through a null pointer). `wait_for` is
`WaitCopy`, `WaitPoll` (or `PollThrow`), `WaitLock`, one `DispatchEvent` per event
(`clear_event`, `set_error` and `prepare_handles` together; `DispatchFault` and
`DispatchThrow` are its bad ends), `DispatchEnd`, one `RunTask` per task and
`WaitReturn`. `Complete` joins the load of `error_` and the call of `func()`, between
which another thread may store an error: that changes what a receiver gets, and none of
the properties checked with two threads is about it. A completion runs program code (`wpc = "cont"`), which may start
further operations from inside `wait_for`. After undefined behaviour (`fault`)
nothing more is said of the execution.

External: what a system call does under given poll conditions (`IoOutcomes`: it
succeeds, fails or would block, and may use up the condition), what `poll()`
reports (`Revents`: requested flags, unasked errors and hang-ups, `POLLNVAL` for a
closed descriptor), conditions raised by the kernel (`Raise`) and the program
dropping its dialog (`Release`). A socket lives as long as the program or an
operation state holds it (`Alive`).

### AsyncOperations

`EXTENDS PollMultiplexer` and replaces its `Submit` by the operations of a dialog:
`Defer` when the counter wraps, otherwise `Attempt` and, after a failed one,
`AfterFailure`, which loads `error_` again as the code does. `Sequential` is the discipline of the
examples: each sender is started before the next one is made.

### IntrusiveTaskQueue, PollTimeout, SocketHandle

`IntrusiveTaskQueue` has `next` and `tail` as functions on nodes; the writes of
each operation are in the order of the code. `Contents` follows the ring, and the
abstract queue is the refinement image. `PollTimeout` has a clock of `Tick` ticks
per millisecond; a wake-up may be `Late` ticks late, and signals come at any tick, for
ever if they like. `SocketHandle` splits a swap
into lock, three accesses for `socket_`, three for `error_`, and unlock;
`set_error`, with an error or with none, may fall between any two. `Lock` takes both
mutexes in one step: that `std::scoped_lock` does so without deadlock is assumed of the
library. `due` is history: the errors the handles would have if a swap were one step;
`Overtaken` is a handle whose error a swap has read and is going to overwrite. `Owned` gives a handle the descriptor that
is in the `tmp` of a swap, so that the swap happens at its exchange.

### OperationQueues

A line per socket and trigger. `Enter` and `AnswerNow` are the two ends of `start`,
`Take` is an iteration of the dispatch loop that moves whole lines to the worker that
holds the lock, `AnswerFirst` is one turn of `run_queue`, and `Forget` the exception
that destroys a ready queue. `taken` is mapped to the ready queues. The order is
promised per worker: two threads that took lines one after the other may run them in
any order, which is why it is not a promise about the receivers of a socket.

### SmallFunctor

`memory.cell` gives what each storage holds: raw bytes, a callable, or one that was
moved from. The entries of a vtable are functions of the memory which set
`memory.bad` when they are applied to something else than a live object of their
type. `swap` is written as the three destructive moves of the code through
`temp_storage`; copy assignment is the copy into `tmp`, the swap and the destruction
of `tmp`. A copy of a callable that has no copy constructor is empty, as in a build
without assertions. `FunctorCells` has no bytes: assignment, exchange, drop and
answer.

### MessageBuffer and EchoServer

A buffer is an address and a length. `PlusAssign` runs the predicate of the
`remove_if` in `operator+=` along the buffers, with the length it captures by reference;
`Bytes` walks a message with the iterator operators and gives the addresses in order.
The loops of this module are recursive functions on positions, so that they can be
proved about.

`main` and `acceptor` say where the server is, `conn[c]` what is pending on the
connection of a client. An action is the completion of an operation with its
then-handler, which spawns the next one; `ReadSome` and `WriteSome` let the kernel give
or take any number of bytes. `reader` makes a new message over a new buffer,
`writer` advances the message it shares with itself. `PushFails` tells the three places apart
in which an exception of `executor->push` can land. A client sends a message of several
buffers with `sendmsg` and `+=`, then receives into several buffers and walks them.
Those buffers lie anywhere but do not overlap (`RecvAssumption`); `Stored` is the byte
that `recvmsg` left at an address.
`blocks` and `collected` are history. External: the kernel's byte streams and what
the clients do.

### SocketDialogs

`executor_[g]` is the shared pointer of triggers, `dialog[d]` a weak executor and a
shared socket, `op[o]` an operation that was started. Executors are owned by triggers,
and by the handler of a pending `accept`, which captures the pointer (`Pins`). Each
call through a dialog is the forwarding action (`Bind`) on top of the system call
(`SocketBind`). `connect` is a step that enters the
kernel and one that returns (`ConnectReturns`); after `EINTR` it is called again while
the kernel goes on (`Settle`). The model's program starts a sender at once. It moves and
destroys triggers at any time, as the defaulted members allow; operations on an executor
that no triggers own any more are stranded. (`exec::async_scope` asserts that there are
none when it is destroyed; the model is a build without assertions.)

### PingPongClient

`scope` is the set of operations spawned and not completed, each with the copy of the
sequence number in its handler. The peer answers each read with one pong; it may
refuse, reset, close or send a pong in two segments (`Faults`), and `trouble` records
that one of these happened. The counters saturate one beyond `ping_count`.

## Runs

Passing runs and what they show:

- `two_waiters` (2 threads that start operations and run the loop, 2 operations, both
  exceptions): `TypeOK`, `PlacedOnce` and the refinement `FirstInFirstOut`.
- `parts`, three parts that share no state with the rest, each explored while the others
  rest. Task queue (3 queues, 4 tasks): `LinksOK`, `TailIsLast` and the refinement
  `PointersAreQueues`. Timeout: `PollTypeOK`, `NotEarly`, `BoundedOvershoot` and, under
  fairness, `OnlyDenseSignalsDelay` (a timed wait that never ends is one whose signals
  come less than a millisecond apart from some time on). Functor (3 functors, a copyable
  type that may throw and one that cannot be copied): `FunctorTypeOK`,
  `HoldsItsCallable`, `NoMisuse` and the refinement `FunctorsAreCells`.
- `async_one_thread` (1 thread, 3 operations, counter of 2): `AsyncTypeOK`, `Armed`
  (interest list and queues stay in step), `NoStaleInterest`, `NoWouldBlock` (`EAGAIN`
  reaches a receiver only if another operation contended for its socket), `NoFault`
  and, under fairness, `NotStuckReady`. Three
  operations are needed for `NoWouldBlock`: between two tasks that one event made
  ready, the receiver of the first can make an eager attempt, which takes the data or
  puts `EAGAIN` over the error that `POLLERR` left for the second; `Contends` says what
  such a rival is. `ReadyOpCompletes` is too strong here, because a later eager attempt
  may take the data a queued operation waits for. `POLLHUP` is left out, because
  `hang_up_closed` shows that it breaks `NoFault`.
- `socket_handle` (3 threads, 3 handles, 2 descriptors, 2 errors): `HandleTypeOK`,
  `ErrorSurvivesSwap` (every handle that is not overtaken has the error that whole swaps
  would have left on it) and the refinement `SwapsAreAtomic`.
- `echo_server` (2 clients, a message of four bytes in four buffers, one of them
  empty, receive buffers that are not in the order of their addresses, a server buffer
  of three, connections that hold two bytes each way, every fault): `EchoTypeOK`,
  `NothingLost`, `EchoIsPadded` (the blocks come back in order, padded) and, under
  fairness, `EchoArrives` and `BacklogDrains`. `EchoArrives` promises the payload among
  the padding, unless something fails or the two sides are in a `Standoff`: the client
  sends and the server writes, both directions are full, and neither reads. The capacity
  is below the size of the message and of the buffer, so that this happens.
- `dialogs` (2 triggers, dialogs, sockets and operations, 3 executors): `DialogTypeOK`,
  `NeverBlocks`, `BlamesFailuresOnly`.
- `ping_pong` (3 pings, every fault): `PingTypeOK`, `OneInFlight`,
  `SequenceCountsPongs` and, under fairness, `RunEnds`.

Runs in which the code disagrees with what the repository says, each recorded as
a finding with the line it contradicts:

- `lost_wakeup`: a loop thread dispatches between `connect` and `start` of another
  thread; the operation stays queued without interest.
- `hang_up_closed`: `POLLHUP` alone leaves `POLLIN` in the list; when the socket is
  closed later, `demux.socket` dangles.
- `stale_error`: an old error replaces the value of a later successful attempt.
- `endless_wait`: `remaining_duration` drops the part of a millisecond that went by, so
  signals less than a millisecond apart keep a wait with a timeout from ending
  (`FiniteWaitEnds`), though the interval is documented as the maximum time to wait.
- `echo_padding`: the echo server writes whole buffers, so a client reads zeros that
  nobody sent (`EchoIsReceived`), though the example echoes back what it receives. The
  passing property `EchoIsPadded` says what it does instead.

Behaviours the models contain and no run is kept for:

- Interest registered while a thread is in `poll(-1)` is not polled until that call
  returns. An error dispatched between `connect` and the first `start` on a descriptor
  meets a null `demux.socket` (`DispatchFault`), and a socket whose error was cleared
  between the two meets a null `demux` (`StartNull`). Tasks in the ready queue vanish
  with an exception of `getsockopt` (`DispatchThrow`, phase `lost`).
- Two waiters that poll the same `POLLERR` both ask for `SO_ERROR`, which the first
  answer clears; the second `set_error` then stores success before the task ran, and
  its receiver gets `EAGAIN` (`NoWouldBlock` fails with two waiters).
- Of two senders of one socket made before the first is started (`Sequential = FALSE`),
  the second can replace the error seen by the first with `EAGAIN`; `complete()` then
  calls the empty functor.
- `set_error` on a handle that is being swapped is undone. A move assignment leaves its
  source with the target's descriptor, though `socket_handle.hpp:59` says that it
  becomes invalid.
- The fairness counter is one for all threads and sockets: a thread may never be the one
  that draws the zero, and a deferred operation on a handle with a fatal error completes
  inline, so no bound on the attempts between two turns of the loop is claimed.
- Triggers that are destroyed or moved over while operations wait leave those operations
  without anybody to complete them; a pending `accept` also keeps its executor alive, and
  dialogs can go on starting operations on it. `on_empty()` is there to wait for, but
  neither example calls it.
- One failed `accept`, or one failed `fcntl` on an accepted socket, ends the acceptor of
  the echo server; in the handler of a pending `accept` the latter ends the program.
- After any error the ping-pong client's `run()` loops for ever on nothing, and a peer
  that closed is pinged again on every empty read.

### Bounds

Two threads are enough for every pairwise interleaving of critical sections. Two
operations are a queue that is not empty and one started meanwhile, or two moved
together; a third is an attempt made between the two. One socket is enough where iterations of the dispatch loop share only the
ready queue. Losing tasks to an exception takes two (one dispatched before the other
throws); two loop threads on two sockets are more states than a run can visit, and
there `PlacedOnce` rests on the theorem `PlacementCorrect`. `Wrap` is 2 or 3 in place of 256: the counter only tells zero from the
rest. `Tick = 3` and `Late = 6` let two milliseconds pass after a timeout, which is
what makes the lower bound in `remaining_duration` matter. `MaxInterrupts` and `Horizon`
are where the counts of signals and of ticks stop; signals and clock go on. Three
threads are two that swap and one that sets errors, or a cycle of three swaps. Three
functors are a source, a target and a
bystander; the types differ in the one thing the code asks of them. A server buffer of
three against messages of four and a capacity of two gives partial reads, partial
writes, a message that spans two blocks and full pipes; one signal is enough where the
loop has no state. In `dialogs` there is an executor more than operations, so that all
operations can be stranded and the program can still go on. Three pings have a first, a
middle and a last; two bytes can be split. Operations, and threads or descriptors where
they are interchangeable, are symmetric in runs that check no liveness.

### Fairness and deadlock

`LiveSpec` and `AsyncLiveSpec` assume weak fairness of a thread's steps: a thread
that can go on does, and the program calls `wait_for` again, as the loops of the
examples do. They do not assume that the program submits operations, that the
kernel raises events or that `poll(-1)` returns. `PollSpec` assumes that the clock
runs and that `poll()` returns after its timeout. `EchoSpec` assumes weak fairness of
the server's completions for each client, of accepting each client, and of each
client's own calls: the server's loop runs whatever poll reports, and the backlog and
the queues are served in order. Signals have no fairness. It does not assume that clients stay or that faults end. `PingSpec`
assumes it of the client's loop and of a peer that has room to answer; `PongSplit` and
the failures have no fairness. Deadlock is checked except where a thread may be blocked
in `poll(-1)` for ever, where a server may wait for clients for ever, and where the
client's loop waits for nothing.

## Proofs

Every theorem holds for all values of the constants that satisfy the named `ASSUME`s.

**Multiplexer** (`PollMultiplexerProofs`), for any threads, waiters, clients, sockets
and operations:

- `TypeCorrect`: `Spec => []TypeOK`.
- `PlacementCorrect`: `Spec => []PlacedOnce`. `PlacedOnce` alone is not inductive: a
  task that is pushed must not be on a queue already, and a task that is moved must
  belong to the queue it leaves. The invariant `PlaceInv` adds `TypeOK` and `OpShape`,
  which ties the phase of an operation to its socket, trigger and owner. The proof has
  one lemma per kind of step: a frame lemma for steps that leave queues and phases
  alone, and one each for inline completion, enqueueing, dispatch, exception and
  running a task. They rest on lemmas about injective sequences (append,
  concatenation, tail).
- `LinesKept`: `Spec => FirstInFirstOut`, the refinement of `OperationQueues`. Under
  `PlaceInv` the end of a dispatch step is `Take` of one or two whole lines, the
  exception is `Forget`, and `RunTask` answers the first of what the thread took.

**Asynchronous operations** (`AsyncOperationsProofs`):

- `AsyncTypeCorrect`, `AsyncPlacement`, `AsyncLinesKept`: the three results above for
  `AsyncSpec`, for any threads and any `Wrap`. An attempt leaves queues and deliveries
  alone (`IssueFrame`), every other step is one of the multiplexer.
- `ArmedAlways` (`OneThread`, and `getsockopt` does not throw). The invariant:
  operations get their demultiplexer from `connect` (`Owned`), a thread in `poll()` or in
  the dispatch loop has started all it made (`Idle`), and a registered operation has
  its event in the list from `connect` until its queue is moved (`Registered`).
  `lost_wakeup` is what happens without `Idle`; an exception after `clear_event` is
  what happens without the other hypothesis.
- `ErrorsDelivered` (`OneThread`, `Sequential`, any kernel): the handle holds the error that an
  empty functor stands for until it is delivered (`Excused`).
- `InterestWanted`, `PointersValid` (`OneThread`, `Sequential`, no `POLLHUP`):
  `PointerInv` adds that `connect` and `start` see the same error (`Firm`), that what is
  in the list was registered by an operation still waiting (`Wanted`), and that a
  polled socket has a queued operation, hence a valid `demux.socket` (`Reported`).
  `hang_up_closed` is the case `POLLHUP`; `Sequential = FALSE` breaks `Firm`.
- `EagainHasRival` (`OneThread`, nothing else): what was reported of a socket with
  queued operations is still so until its lines are taken (`StillTrue`), ready tasks
  are run before anything is polled again (`ReadyTime`), and a task about to run finds
  an error, something to do, or had a rival (`Served`).

The hypotheses are conditions on constants, which hold in `async_one_thread` and in
both examples, except that a real kernel may raise `POLLHUP` and a real `getsockopt`
may fail. `OneThread` cannot be weakened to one loop thread beside others that only start
operations; TLC finds a counterexample with two threads on one socket for each of the
five results: their attempt replaces an error by
`EAGAIN` before it is delivered (`ErrorReachesReceiver`), or takes a reported `POLLERR` and
fails, whereupon the dispatch stores success over its error (`NoWouldBlock`); the dispatch
falls between their `connect` and `start` (`Armed`); or they change the error between the
`connect` and the `start` of another thread (`NoStaleInterest`, `NoFault`).

**Task queue** (`IntrusiveTaskQueueProofs`), for any finite sets of heads and tasks:
`LinksCorrect`, `TailCorrect` and the refinement `PointersImplementQueues`. The
invariant `RingInv` says that for the sequences `Contents` reads, `next` goes once
around the ring of the head and the tasks, `tail` names its last node, and no task is
on two rings or twice on one. `Contents` follows a recursive function; that the
function exists and walks around the ring is proved by taking the least index at which
it would not (`LeastElement`), and that the walk is long enough by counting
(`RingFits`). Each operation then maps rings to the rings of the longer, shorter or
concatenated sequences (`PushRings`, `PopRings`, `MoveBackRings`).

**Timeout** (`PollMultiplexerProofs`), for every `Tick`, `Late`, duration and number of
signals: `PollTypeCorrect`, `TimeoutNotEarly`, `TimeoutOvershoot`. The invariant
`DeadlineInv` says that a finite wait stays finite (`KeepsKind`), and that the deadline
of the current system call is never before the caller's and at most one `Slack` per
signal after it; the lemma for the signal is the arithmetic of truncation.

**socket_handle** (`SocketHandleProofs`), for any threads, handles and descriptors:

- `SwapsImplementOwnership`: `HandleSpec => SwapsAreAtomic`, with `HandleTypesCorrect`
  on the way. `LockInv` says that a thread past the lock
  holds exactly the mutexes of its two different handles (`Exclusion`), and what kind
  of value its locals have (`SwapShape`); without the latter a store could put an error
  code in `socket_`. `OwnInv` adds that an open descriptor has one owner or one thread
  closing it (`OneOwner`), and that what a swap loaded is still there at its exchange
  (`SwapFacts`). Owners are read through `Owned`, whose choice is unique by
  `Exclusion`; construction, exchange, destruction and close are then the four steps
  of `SocketOwnership`, and every other step leaves owners alone. That
  `std::scoped_lock` takes both mutexes or none is assumed of the library.
- `ErrorsSurvive`: `HandleSpec => []ErrorSurvivesSwap`. `ErrorInv` adds what the locals of
  a swap hold (`ErrorLocals`): between the load and the store of the errors, `val` before
  the exchange and `tmp` after it is the error that `due` gives the source, so the store
  puts the right one in place. What the unlocked `set_error` costs is one update, of a
  handle that is overtaken.

**small_functor** (`SmallFunctorProofs`), for any functors, types and captured values:
`FunctorTypeCorrect`, `StorageInStep`, `VtablesMatch` and the refinement
`FunctorsImplementCells`. `FunctorInv` says that every storage holds a live object of
the type its `vptr_` names or raw bytes, that nothing was misused, and that what is not
constructed is empty. The three destructive moves of a swap are one lemma (`SwapFits`);
moves, copy assignment and the throwing copies follow from it.

**Dialogs** (`SocketDialogsProofs`), for any triggers, executors, dialogs, sockets,
operations and addresses: `DialogTypeCorrect`, `SocketsNeverBlock`,
`ConnectBlamesFailures`. `DialogInv` adds to the types that a `connect` in the kernel has
the executor and the socket it will submit (`CallOK`). That the span of an address is the
address, whatever the size of its storage, is a lemma (`SpanOfOption`).

**Ping-pong** (`PingPongProofs`), for every number of pings, messages and capacity:
`PingTypeCorrect`, `NeverTwoInFlight`, `SequenceIsPongs`. `PingInv` says that the scope
is empty or holds one operation, which carries the number of pongs, and that a pong is
waited for only when a ping is ahead.

**Message buffers and echo server** (`EchoServerProofs`), for any clients, messages,
receive buffers, buffer size and capacity:

- `PlusAssignDrops`: for every message of `n` bytes and every `k` up to `n`, what
  `operator+=` leaves are the last `n - k` bytes in their order, whether `k` ends inside
  a buffer, at its end or among empty ones. What a loop computes is proved by induction
  along its positions: a set of positions that has the first and with each the next has
  all of them (`Upwards`), and a loop that is defined by recursion has a run (`RunExists`),
  the only one (`RunsAgree`). In the step the bytes kept so far, followed by the rest of
  the message, are the message without its first `k` bytes (`RemoveIfUsedStep`).
- `EchoTypeCorrect`, `NothingIsLost`, `EchoComesPadded`, from the invariant `EchoInv`. The
  two equations about streams are kept apart per client (`ClientIsSent`, `ClientIsEchoed`),
  and every step moves bytes from the front of one part to the end of the part before it
  (`Moved`, `MovedBehind`), which leaves the concatenation alone. What they need beside
  it: a reader has a message over the whole of a buffer of zeros (`ReaderIsFresh`; without
  it a block would be followed by the last one's bytes instead of zeros), nothing was
  exchanged before `accept` (`NothingBeforeAccept`), and a walk is inside the buffers, which
  hold all that was received (`WalkIsInside`). That the iterator gives the received bytes
  in order, one buffer at a time (`OneBuffer`), is where the receive buffers must not
  overlap.

The assumptions on constants are what the code gives: `Nil` (a null pointer, no error)
is none of the values it stands beside, a task queue has finitely many nodes, messages
are sequences of bytes, sizes are natural numbers, the buffers of one `recvmsg` do not
overlap. TLC evaluates them in the runs.

### Only model-checked

- Liveness: `NotStuckReady`, `OnlyDenseSignalsDelay`, `EchoArrives`, `BacklogDrains`, `RunEnds`.
  Liveness under fairness is out of the prover's reach.

## Plan

1. Done: the multiplexer, its queues, its timeout, the asynchronous operations on
   top of it, `socket_handle`, `small_functor`, message buffers, dialogs and the
   system calls behind them, and both examples.
2. Done: the theorems above, one for every safety property and every refinement that a
   passing run checks.

## Not modelled

Windows code paths, memory orders (every access to an atomic is one step in one
order; the races found need no weaker one), memory allocation failure, control data
and flags of messages, `getsockname` and `getpeername` (they change nothing; the kernel
reports the full length of a name that it cut off, and `subspan` then reaches past the
caller's buffer), `setsockopt` (nothing in the library depends on what it sets) and a
program's own `fcntl` (which must leave `O_NONBLOCK` alone), the comparisons of handles,
options and dialogs, the ordering of options and iterators, iterator decrement and subtraction, the customization points (compile-time
dispatch to the functions that are modelled), the benchmarks and tests, and the code
of stdexec.
