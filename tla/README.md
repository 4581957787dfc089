# A TLA+ development for mutils-networking

mutils-networking multiplexes logical connections over TCP sockets
(`batched_connection`), builds connections with an out-of-band control channel
on top (`dual_connection`), and serves them from a pool of threads around an
`EPoll`. This directory holds TLA+ modules of that code, TLC configurations that
check them on small instances, and TLAPS proofs of what matters most for every
instance.

## 1. The system

| part | source | state | operations | used by / uses |
|---|---|---|---|---|
| batched client | `batched_connection_client.cpp`, `batched_connection.hpp` 20-143 | per socket (`SocketBundle`): abortable lock, one spare buffer or one orphan, one queue of chunks per logical connection; per connection an interrupt flag | `spawn`, `raw_receive`, `raw_send`, `interrupt`, `clear_interrupt` | one thread per logical connection; `Socket::drain` |
| frames | `batched_connection_common.cpp` | none | `send_with_id` | client and server |
| batched receiver | `batched_connection_server.cpp`, `batched_connection.hpp` 144-243 | acceptor's last worker; per worker a queue, an eventfd, an EPoll; per socket the actions of its connections | `acceptor_fun`, `accept_sockets`, `register_receiver_state`, `receive_action`, `tick_one` | the user's `new_connection` |
| EPoll | `epoll.cpp`, `epoll.hpp` | descriptor -> object and action | `add`, `remove`, `wait` | receiver, `super_state` |
| Socket, ServerSocket | `Socket.cpp`, `ServerSocket.cpp` | validity flags | receive, drain, peek, send, accept | all |
| dual client | `dual_connection.cpp`, `dual_connection.hpp` 13-105 | `control_exn_thrown`, `control_channel_active`, a pool of one thread | `raw_receive`, `ControlChannel`, the checking task, destructor | two batched connections |
| dual receiver | `dual_connection_superstate.cpp`, `dual_connection.hpp` 107-238 | `clearing_house`, partner, child | `super_state::deliver_new_event` | batched receiver |
| simple_rpc | `simple_rpc.cpp`, `ServerSocket.cpp` 83-101 | a socket per connection, a detached thread per accepted socket | `spawn`, `raw_send`, `raw_receive`, the receiver's loop | Socket |
| local_connection | `local_connection.cpp` | a byte vector | `raw_send`, `raw_receive` | none |
| connection templates, interfaces | `connection.hpp`, `rpc_api.hpp`, `interruptible_connection.hpp`, `AsyncObject.hpp` | none | overloads | all |
| ReaderWriterQueue | `readerwriterqueue.h` | circle of blocks, each a ring; two indices and two copies of indices per block | `enqueue`, `try_enqueue`, `try_dequeue`, `peek`, `pop`, `size_approx`, the waits of the blocking queue | acceptor -> worker |
| atomicops | `atomicops.h` | a count and a kernel semaphore | `wait`, `tryWait`, `signal`, fences | ReaderWriterQueue |
| `dual_connection2.hpp` | draft, included nowhere | | | |

The abortable lock, `eventfd`, `ctpl::thread_pool`, `SimpleConcurrentVector` and
`BufferGenerator` come from sibling repositories; they are modelled from how the
code here uses them.

What is hard, and what makes each part correct:

* **Client.** There is no reader thread. Whoever waits takes the socket lock and
  reads for all. A frame may be cut anywhere, and its rest may be read by
  another thread, after timeouts. A thread must not block in `recv` when its
  message was already queued by another; the one buffer must survive every
  exception; bytes must reach the right connection once and in order; an
  interrupt must end a wait.
* **Dual client.** Two threads, four flags and a lock decide whether an
  interruption is a control message; a leftover interrupt or a restarted check
  at the wrong moment would throw a `ControlChannel` for nothing or lose one.
* **Receiver.** A socket goes from acceptor to worker through a queue and an
  eventfd (lost wake-ups); a worker blocks for a socket id; exceptions remove
  whatever object's action threw; a timeout inside a frame must not be retried.
* **Setup of a dual connection.** Threads of the client take ids from counters they
  share without a lock; on the server two states, made in any order between
  those of other clients' threads, find each other through a shared vector and
  one of them initialises both.
* **EPoll.** A batch of events is worked off while the actions it calls change the
  set; numbers of descriptors are used again; an action that throws takes its
  object out, and one that throws `out_of_range` is taken for something else.
* **Queue.** Two threads without a lock; each trusts its old copy of the other's
  index until it must not. The blocking queue adds a count that a timeout and a
  signal change at the same time.
* **simple_rpc.** Sizes precede bytes and nothing else tells where a message
  starts; exceptions leave a detached thread.

`PROJECT.json` lists each hazard at its line with the properties aimed at it.

## 2. Modules

| module | what it is |
|---|---|
| `LogicalChannels` | abstract: one reliable byte stream per connection; a receive takes exactly the next bytes it asked for, or none |
| `BatchedClient` | the batched client, one action per step of `raw_receive`, `from_network`, `process_data`; refines `LogicalChannels` |
| `BatchedClientProps` | its property that flattens sequences, its liveness |
| `DualClient` | `dual_connection` and `ControlChannel` over two connections of `BatchedClient` |
| `DualSetup` | `spawn` on the client, and on the server the `super_state`s that become the two ends of a dual connection, with what they deliver |
| `Receiver` | the server side: acceptor, workers, registration, `receive_action`, removal |
| `Epoll` | `EPoll` itself, for any users |
| `Fifo` | abstract: a queue of one producer and one consumer |
| `SpscQueue` | `ReaderWriterQueue`, one shared access per step; refines `Fifo` |
| `BlockingQueue` | `BlockingReaderWriterQueue` over `SpscQueue`, with the `LightweightSemaphore` |
| `SimpleRpc` | clients, acceptor and threads of `simple_rpc` |
| `MC*` | the same for TLC (symmetry, the queues to look at) |
| `BatchedClientProofs`, `DualClientProofs`, `DualSetupProofs`, `ReceiverStreamProofs`, `EpollProofs`, `SpscQueueProofs`, `BlockingQueueProofs`, `SimpleRpcProofs` | TLAPS proofs |

What a module takes from another component is that component's promise:
`DualSetup` uses the streams of `LogicalChannels` and the one worker per socket
of `Receiver` (`OneWorker`); `Receiver` uses the queue as `Fifo` describes it.

### BatchedClient

A byte is a pair `<<f, k>>`, the k-th byte of the f-th frame, so that a byte read
in the wrong place is visible as such; `HdrSize` is two units, id and size, and
both may be cut apart. `wire` is what is in flight or in the kernel; `orphans`
the contents of `sock.orphans`; `spare` whether `sock.spare` has a buffer;
`hand` the bytes in the buffer the lock holder works on; `queue[c]` the list
`incoming[c]`, `interrupted[c]` the atomic flag, `pc[c]` the place in
`raw_receive`.

| action | code (`batched_connection_client.cpp`) |
|---|---|
| `Call`, `LoopTest`, `ThrowInterrupted` | 202-209, 282-285 |
| `LookAtQueue`, `PopChunk`, `PopOversized` | 213 (read without the lock), 214-234, 225-227 and 155-161 |
| `LockAborted`, `LockAcquired` | 236 and the choice of buffer, 246-270 |
| `Drain`, `DrainTimeout`, `DrainClosed` | 111-152 with the catch blocks 257-263, 273-278 |
| `KeepOrphan`, `DispatchFrame` | 59-76, 77-94, one recursive call of `process_data` per step |
| `Unlock` | the end of the scope of line 236 |

Assumptions: a logical connection is used by one thread at a time, as the code
requires (its queue has no protection against two consumers). `lock_or_abort`
evaluates its predicate when it has the lock, which is what the assert in line
243 expects of it. The read of `queue.size()` in line 213 races with `emplace_back`; the
value read is the one before or after. A buffer takes what `recv` offers:
`Drain` takes any number of the bytes there. An oversized request ends its
thread in `throw dead_code{}`; in `BatchedClient` the other threads go on.
`hasTimeout`, drawn at the start from `Builds`, says whether the socket has a
receive timeout (debug build) or not (release build).

### DualClient

`DualClient` EXTENDS `BatchedClient`, with `Conn = {Data, Ctl}`: the user's
thread calls on `Data`, the pool's thread peeks on `Ctl` with a request of 0,
and the user reads `Ctl` while it holds a `ControlChannel`. `user` and `pool`
are the places of the two threads, `active` the holder of
`control_channel_active`, `tasks` the copies of `check_control_fun` in the
pool's queue. `ResetExn`, `PushCheck` and `ClearAndRelease` are the three lines
of `~ControlChannel`; the lock is a member and goes last. A request of 0 on the
data connection is not made (nothing in the repository does).

### Receiver

`link[s]` is a client, `flight` and `rx` its pieces on their way and arrived.
The acceptor's three steps are `Accept`, `Enqueue`, `Notify`; a worker is in
`at[w]`, working on `cur[w]`.

| action | code (`batched_connection_server.cpp`) |
|---|---|
| `WakeForSockets`, `Dequeue`, `QueueDrained` | 82-88, 104-111 |
| `RegisterSocket`, `SidBroken`, `SidFails` | 90-102; a `BrokenSocketException` there leaves `accept_sockets`, and `EPoll::wait` (epoll.cpp 54-63) removes the eventfd whose action threw |
| `WakeForFrame`, `HangUp` | epoll.cpp 27-47 |
| `ReceiveId`, `ReceiveSize`, `ReceiveBody` | 36-68 |
| `ReceiveBroken` | removal by `EPoll::wait`, swallowed in 121-124 |
| `ReceiveCut`, `ReceiveTimeout` | a `ProtocolException`, which nobody catches: the process ends (`up`) |

Ready descriptors are taken one at a time. `epoll_wait` returns a batch, but it
is level-triggered, an exception drops the rest of a batch only to have it
reported again, and no action of the receiver removes another's descriptor, so
the orders are the same. A timeout before the first byte of an id (line 100)
cannot happen, since the worker reads only a descriptor that is readable.
A notification of a destroyed eventfd reaches no worker, and a client may go at
any time, before its socket id too (`EarlyClose`). Not modelled: the
users' actions and their own descriptors (`async_tick`), a failing `accept`,
and the shutdown.

### DualSetup

A thread of the client goes through `PickBundle`, then for each connection
`ReadUnusedId` and `MakeConnection` (client.cpp 304-331; the read of `unused_id`
and its increment are two steps), then `ReceiveNumber` and `TellRole` for each
channel (dual_connection.hpp 86-104), and then says what it likes on both. A
thread may instead spawn a connection of its own by `spawn()` and not use it.
On the server, per bundle one worker: `MakeSuperState` (the first, empty frame
of a connection; `dual_connection_superstate.cpp` 5-15), `TakeRole` (37-45),
`FindPartner` (46-50), `DeliverToChild` (52). `up` and `down` are what the
layers below promise. Two connections with one id share the queue the second
one made; `clash` records that, and nothing is modelled after it. The
`SimpleConcurrentVector` `clearing_house` is an array, which a constructor may make
longer (`Extended`) in one step; the class itself is in a submodule.

### Epoll

`place[o]` is where an object lives (with the caller, in `fd_lookup`, destroyed),
`fd[o]` its descriptor, which the operating system gives to another object when
it is closed, `watched` the kernel's set, `batch` the events that `wait` has not
worked off. `add`, `remove`, `EpollWait` and, for an event, `EraseBroken`,
`CallAction`, `NoSuchObject`; an action ends in `ActionReturns`,
`ActionOutOfRange` or `ActionThrows` (epoll.cpp 27-67, epoll.hpp 95-131). Users
make, add, remove and destroy objects outside `wait` and in actions. Assumed: an
action does not remove its own object, which would destroy the function that
runs, and does not call `wait`. Three histories name what the state has
forgotten: whom an event was meant for, which events hit another object, and
whose own action threw `out_of_range`.

### SpscQueue and BlockingQueue

`block` holds the blocks in the order they were made, with `front`, `tail`, the
copies `localFront`, `localTail`, `next`, and the slots. A step ends where a
thread has read or written one variable the other also uses.

| action | code (`readerwriterqueue.h`) |
|---|---|
| `Enqueue`, `RefreshFront`, `WriteSlot`, `PublishTail` | 447-459 |
| `TailBlockFull`, `UseNextBlock`, `AdvanceTail` | 461-488 (then `WriteSlot`, `PublishTail` on the next block) |
| `AllocateBlock`, `OutOfMemory`, `LinkBlock`, `AdvanceTail` | 490-515 |
| `Get`, `LookAtTail`, `TakeSlot`, `GiveUpSlot` | 229-245, and the same in `peek` and `pop` |
| `LookAtTailBlock`, `Recheck`, `LookAtNext`, `AdvanceFront` | 247-277 |
| `SizeApprox`, `SizeStep`, `SizeReturn` | 414-427 |
| `Destroy` | 141-165 |

`prod.held` and `cons.wasEmpty` are histories that the refinement of `Fifo` needs:
"empty" and "full" speak of the moment of the call. `BlockingQueue` puts the
semaphore's steps around the same actions (`atomicops.h` 498-543 and 569-648):
the count goes below zero for a waiter, `signal` posts for one, and a timeout
is undone (`Undo`, `Redo`, `TrySema`). `SemaRefused` is the deadline with
`tv_nsec` = 10^9, which line 528 lets through: `sem_timedwait` refuses it, and
`timed_wait` takes that for a success.

### SimpleRpc

`wire[c]` holds bytes, each a record of its message, its place and the value of
the size field, so that bytes read as the wrong thing are visible. `Accept` and
`AcceptFails` are `loop_until_dead`; `ReadSize`, `ReadPayload`, `Deliver` a turn
of the thread's loop, with the ends of `receive_helper` (`RecvAll`, `RecvZero`,
`RecvFails`) and of `Socket::raw_send` in them. `limit` is the number of
descriptors the process may have: `~Socket` closes a valid socket only, and the
zero that ends a connection makes it not valid, so `fds` never shrinks.
Nothing sets `alive` to false.

## 3. Runs

Constants are model values for connections, objects and threads, and small sets
of sizes.

| run | shows |
|---|---|
| `client_safety` | lock, buffer, alignment, conservation of bytes, and refinement of `LogicalChannels`, with timeouts, interrupts and a closing server |
| `client_liveness` | both builds: a receive whose bytes were sent ends, though another thread may read them; debug build: `interrupt` ends a wait |
| `dual` | debug build: an interruption means a control message; one reader of the control connection; the flags agree between receives; the message is there when the exception is thrown; a control message ends a wait for data; the destructor ends |
| `dual_release` | **violated**: release build, see 5 |
| `receiver` | headers are read where headers are; one action per logical connection, its messages once and in order; no lost wake-up; sockets are taken over and messages delivered, unless another client stays without ever sending its socket id (`NotHeldUp`) or left before its id was received (`notifier`) |
| `receiver_early_close` | **violated**: a socket is taken over even if another client closes early |
| `receiver_timeout` | **violated**: a slow network ends the process |
| `receiver_cleanup` | **violated**: what refers to a closed socket stays registered |
| `queue` | the refinement of `Fifo`; one user per slot, with the code's asserts; nothing left undestroyed; `size_approx`; the semaphore counts the items; no wait sleeps over an item |
| `epoll` | the kernel's set and `fd_lookup` agree; only broken objects are destroyed; a ready object is served |
| `dual_setup` | when ids can clash; pairs are right and made once; the role comes first; messages are heard on their channel, in order, all of them; every spawn ends |
| `simple_rpc` | whole messages in order; a thread that ended had heard all; what may end the process; connections do not wait for each other |

### Bounds

* Client: `MaxFrames` two or three (one cut by `recv` while the next follows, or
  one per connection); requests of 0, of less and of more than a frame holds; two
  connections, the reader and the one read for. Calls, timeouts and interrupts
  are unbounded.
* Receiver: two clients (one that misbehaves and one that suffers) of one worker.
  Workers share nothing but the acceptor; `NoLostWakeup` and `OneWorker`, the
  properties between acceptor and workers, are proved for every number of them.
  `MaxEvents` counts connects and frames: two clients and one frame, or one
  client and two frames.
* Queue: one block, of two or four slots, that must grow once or twice, with a
  `tail` that wraps; five blocks of two slots, the smallest circle the
  constructor makes of them, enqueued to more than once round. Four to six items. The
  blocking queue has three, so a timeout can race with a signal while a
  third item follows. A refused deadline happens once.
* Epoll: three objects, two numbers, four calls of `add`: an object can be
  destroyed and its number given to a second one within one batch that has a
  third object's event.
* DualSetup: two threads, one or two bundles; ids modulo 3, so that two dual
  connections need one id more than there are; two messages
  of each.
* SimpleRpc: two clients of two messages, of size 0 or 2, sizes of two bytes, one
  short write; descriptors for two or three connections.

`receiver`, `epoll`, `dual_setup`, `simple_rpc` and `queue` do not check deadlock:
when the clients have gone the server waits, a user need not call again, and a
consumer may wait for an item nobody enqueues. Symmetry is used in
`client_safety` only.

Each property is also run against a variant of one definition that has a
plausible bug (`FrameBytesFrom0`, `RecheckNothing`, `UnwatchNothing`, ... next to
the originals; the specifications do not use them), and TLC finds it violated.

### Fairness

* `BatchedClient`: weak fairness of each thread's steps, which the operating
  system's scheduler gives. The lock is not assumed fair: `Delivery` holds
  although one thread may take it over and over. A receive may time out while
  bytes are still on their way, any number of times; strong fairness of `Drain`
  says that the network delivers, so that threads which go on reading do not
  time out for ever.
* `DualClient`: the same, and weak fairness of the user's thread inside the
  library and of the pool's thread. Whether and when the user receives, leaves
  the handler or destroys the object is the user's choice, and not fair.
* `Receiver`: weak fairness of acceptor and workers; strong fairness of taking
  a given ready descriptor, since `epoll_wait` returns all of them
  (`max_events` counts every `add`); the network delivers. Nothing is assumed of
  clients: one that has connected may never send its socket id, and the receive
  of line 92, without a timeout, then holds its worker up for ever. `TakenOver`,
  `MessagesDelivered` and `HandedOff` therefore have as a premise that this does
  not happen (`NotHeldUp`, for `TakenOver` and `HandedOff` of the worker in
  question only); without it they fail at once.
* `Epoll`: the thread calls `wait` again, and actions end. An action that throws
  makes `wait` forget the rest of its batch; that a ready object is not behind
  such an action for ever (strong fairness of `CallAction` on its event) rests
  on the kernel, which puts a level-triggered descriptor it reported at the end
  of its list. The bound of `max_events` on a batch is the code's.
* `BlockingQueue`, `DualSetup`, `SimpleRpc`: weak fairness of each thread inside
  the library; calls are the user's choice.

No fairness is assumed of timeouts, closes, interrupts or of what users send.

## 4. Proofs

For every set of connections, sizes and requests and any number of frames:

* `TypeCorrect` (`TypeOK`). The parts about bytes say that every undispatched
  byte belongs to a sent frame, which makes `HeadId` and `HeadSize` defined.
* `LockSafe`, `BufferSafe`, `QueueEmptyUnderLock`, from the inductive
  `SharingInv`, their conjunction: each needs the others (a thread's queue stays
  empty under the lock because only the lock holder dispatches).
* `HeadersAligned` (`FrameAligned`): orphan, hand and wire in this order are
  the frames in the order sent, beginning at a header. `Contiguous` is the
  inductive form: it is kept by cutting a prefix off (a close), by dropping a
  whole frame (a dispatch) and by appending one (a send), one lemma each;
  every other step only moves bytes between the three.
* `ClientRefinesChannels` (`RefinesChannels`): the batched client implements
  `LogicalChannels`. The step to prove is `PopChunk`: the chunk it takes begins
  with the next bytes of what was sent to that connection. `StreamInv` says so
  without folds, through witnesses the code does not keep: the first undispatched
  frame `f` (`Awaited`, from `HeadersAligned`); for each connection, where in what
  was sent to it the payload of each frame begins (`Numbered`); and where in it
  each chunk of its queue begins (`LaidOut`). What the callers took, the chunks
  one after the other, and the payloads from frame `f` on follow each other without
  gap. A send puts a payload at the end (`NumberedAppend`), a dispatch moves the
  first one to the queue (`LaidAppend`), a pop takes from the front of the queue
  and puts the rest back (`LaidTake`); each is a lemma that gives the new witnesses.
  A thread that died of an oversized request took a chunk with it, and nothing is
  said of its queue.
* `NothingLost` (`Conserved`), the same as one equation over the state: what the
  callers of a connection took, the chunks of its queue flattened, and its bytes
  in orphan, hand and wire are what was sent to it, or a prefix once the server
  closed. Next to it only `FrameAligned` and
  `SharingInv` are needed: the bytes a step moves are the first frame, a prefix,
  or one more frame at the end. A send (`HeldSend`) puts a
  payload at both ends of the equation, a dispatch (`HeldDispatch`) takes the
  frame off and puts the payload into the queue of the same connection, a pop
  (`HeldPop`) moves bytes from the queue to the caller and puts the rest back, a
  close (`HeldClose`) cuts; all others move bytes inside what is not dispatched
  (`HeldStays`). `FlattenSeq` is recursive in its definition; here its value is
  named by its partial sums (`Sums`), which exist and are unique (`SumsExist`,
  `FlattenIsSum`), each by an induction over one given set of numbers
  (`Induction`, from the well-foundedness of `Nat`), and `FlattenConcat` needs
  only to put two families of sums together.
* `DualUsesClient`: each step of `DualClient` is a step of `BatchedClient` or
  leaves it alone, so `DualHeadersAligned` and `DualRefinesChannels` follow.
* `CatchAssertHolds`, `ControlHasOneReader`, `FlagsAlwaysAgree`, from
  `HandshakeInv`, which counts the checking tasks against the places of the two
  threads (exactly one of "task pending, pool at work, control message reported"
  holds) and says from where to where the data connection's interrupt flag
  accompanies `control_exn_thrown`. `DualTypeCorrect` (`DualTypeOK`) needs the
  same: it is why no more than one task ever waits.
* `ChannelAlwaysReady` (`ChannelReady`), under the assumption `0 \notin FrameSizes`:
  the pool's peek takes 0 bytes of a chunk that is not empty and puts it back,
  and nobody else reads the control connection until the user is in the handler
  (`ReadyInv`, on top of `HandshakeInv`). An empty control message would be
  consumed by the peek, so the assumption cannot be dropped.
* `WakeupNeverLost` (`NoLostWakeup`), for any number of workers and clients.
* `ReceiverTypeCorrect` (`TypeOK`), `HeadersRead` (`HeaderNext`) and
  `DeliveredInOrder` (`InOrder`), from one inductive invariant, `ReceiverInv`, in
  three layers. `HeldOnce`: a socket is in one place (backlog, acceptor's hand, a
  queue, a worker's hand, an EPoll), so one worker at most reads it. `SentInv`:
  what a client has unread, arrived or not, is a stretch of the pieces of its
  frames (`IsStream`), and while the client is connected it goes to the end of
  the last frame (`Complete`). `ReadInv`: the first unread piece is the one
  the worker expects (id, size or payload of the frame it is in, or the id of the
  next frame), and the messages delivered are those of all frames before it
  (`Reached`). A read of n pieces is one lemma (`FieldTaken`): it ends inside
  the frame or exactly at its end. Orders are stated without folds, through sets
  of frame numbers (`Given`, `Messages`), so no induction over data is needed.
* `OneWorkerForLife` (`OneWorker`), the action property on which `DualSetup` and
  every lock-free access to a `Socket` rest: no step gives a socket to a worker
  unless the acceptor had it in hand, and then no other worker has it before or
  after the step. `HeldOnce` excludes two places at once (`SoleKeeper`) and says
  that what the acceptor has is nowhere else (`FreshIsFree`); `KeptBefore` goes
  through the steps that take a socket from one place to the next.
* `EpollTypeCorrect`, `WatchedAlwaysOwned`, `OnlyBrokenErased`, for any objects and
  descriptors, from `EpollInv`: a descriptor has one living object, what the
  kernel watches EPoll owns, the running action's object is in `fd_lookup`, and
  an event of the batch is about an object of EPoll with that number or about a
  destroyed one (`BatchTrue`). The last is what a stale event needs: whoever else
  it hits, the object it was meant for is gone.
* `RoleBeforeMessages` (`RoleComesFirst`), `PairsAreRight` (`PairedRight`) and
  `HeardAsSaid` (`HeardInOrder`), until two ids clash, from `SetupInv`. Each
  connection is that of one thread and channel (`ConnsInv`). What the server has
  taken from it and what is still on its way are, in this order, what the thread
  has sent: its empty frame, its role, its messages (`ServerInv`, `FramesInv`,
  `OrderInv`, `AwaitedInv`). The `clearing_house` holds each super_state that
  knows its role at its own number (`HouseInv`). `MeetInv` is what the asserts
  need: both connections of a spawn are on one bundle, the data one is told first,
  so its super_state knows its role before the other (`OrderInv` keeps the frames
  in the order sent); the other finds it there and gives both their child, while
  the messages of the thread are behind both roles. A prefix is then heard of what
  was said (`HeardRow`).
* `ClashNeedsOverlap` (`ClashOnlyByOverlap`), from `ClashInv`: without overlap,
  the m connections a bundle has drawn an id for have the ids below m, and m is
  next (`IdsInv`); a number in use can come again only when `TakenIds` has
  outgrown `IdMod`. Both hold for any threads, also infinitely many, bundles, ids
  and messages; `NoneAssumption` only says that `None` is no value of the program.
* `OwnsSlots` (`SlotsOwned`), `LeaksNothing` (`NothingLeaks`), `SizeStaysInRange`
  (`SizeInRange`) and `QueueIsFifo` (`RefinesFifo`), for queues of any size and blocks and any number of items,
  from the inductive `IInv`. It speaks of the circle of blocks through witnesses
  the code does not keep: `ring`, the blocks in order from the front block;
  `T`, where the tail block is among them; `lo[b]`, how many items came before
  those of block `b`. Its parts: the `next` fields make the blocks one circle
  (`Shape`); each thread's copy of the other's index errs on the safe side
  (`Views`); the slots from front to tail hold the items in order, and all
  others nothing, but for the one a thread has in its hands (`Filled`); the
  blocks from front to tail hold consecutive items, those beyond are empty
  (`Chain`); what each thread still knows of what it has read, in each of its
  steps (`ProdInv`, `ConsInv`). The hard case is "full": the producer has
  found its block full, then the next one to be the front block, and meanwhile
  the consumer went on. That there really were `maxSize` items when the call
  began needs that every block behind the front block was filled when the producer
  left it (`Counted`) and that all blocks but one hold what the queue was made
  for (`Room`); the latter, for the constructor's sizes, needs that
  `ceilToPow2` at least keeps and at most doubles its argument, a small induction
  (`CeilFacts`). For the refinement each abstract action is one lemma
  over the mapping, and each step of the code one use of it.

  For `size_approx` (`SizeInv`) the walk is at a position of the circle as it is
  now, not as it was at the call. When the consumer counts, the front block stays:
  up to the tail block it has counted no more than the items before its position
  (`ConsWalk`). When the producer counts, the front block moves on under it, and
  the walk can find itself behind it, at blocks that have been emptied; then what
  it has counted has been taken (`ProdWalk`).
* `BlockingUsesQueue`: each step of `BlockingQueue` is a step of `SpscQueue` or
  leaves it alone, so the theorems above hold of the specification that the run
  checks. `TokensAlwaysMatch` (`TokensMatchItems`), from `SemaInv`: the number of
  items is the count, plus the item put and not yet signalled, plus the one
  counted off for the consumer, taken or waited for (`Balanced`); and a post of
  the kernel's semaphore is there exactly when a signal found a waiter that has
  not taken it yet, although it may have given up waiting meanwhile. After a
  refused deadline the balance is gone, as the property says.
* `DeliversWhole` (`DeliveredWhole`), `EndedHeard` (`EndedHeardAll`) and
  `TerminationJustified` (`TerminatesOnlyIf`), for any clients and message sizes,
  from `RpcInv`. As long as no `sendmsg` of a client was cut short, the bytes on
  their way from it are a stretch of its frames up to the end of the last
  (`IsStream`, `Complete`), and the first of them is the one its thread reads next
  (`InPlace`); so the size field and the message are read whole, and a receive
  ends early only where the stream does. The open descriptors are exactly the
  connections ever accepted (`SocketsInv`), so the `Cardinality` of the one is that
  of the other and `Client` need not be finite. `Readable`, which is a `CHOOSE` of
  the least message of size 0, needs that a set of numbers has a least
  (well-founded induction over a given set, `ReadableUpTo`).

The assumptions are the named ones of the modules, which TLC evaluates in the
runs. `DualTypeOK` and `EpollTypeOK` are proved and therefore not checked again
by a run, and so is `OneWorker`: with the one worker of `receiver` it says little,
and a run with three clients of two workers, so that round robin wraps, is too
large for the liveness that `receiver` is about.

Only model-checked: all liveness, since fairness and `ENABLED` are beyond the
prover. Every safety property a passing run checks is also a theorem.

## 5. Findings

1. **Control messages in the release build** (`dual_release`). The makefile
   compiles with `-DNDEBUG`, and only the debug build sets the receive timeout
   (client.cpp 30-36). A thread that waits for data, holds the socket lock and
   itself dispatches the control frame goes back to `recv`; the interrupt that
   follows is not seen there. `~dual_connection` has the same problem.
2. **A client that closes early disables a worker** (`receiver_early_close`).
   The exception leaves `accept_sockets`, so EPoll removes the eventfd.
3. **5ms of delay end the server** (`receiver_timeout`), despite the assert that
   calls this impossible.
4. **Actions outlive their socket** (`receiver_cleanup`).

What properties had to exclude, because the code does it and says nothing to the
contrary (or only an assert does):

* a client that connects, stays, and never sends its socket id stops all clients of
  its worker (`NotHeldUp`);
* two threads that spawn on one bundle at once, and the 65537th connection of a
  bundle, get an id that is in use (`ClashOnlyByOverlap`);
* the event of a destroyed object can destroy an object that got its number in
  the same batch (`ErasedOnlyIfBroken`); an object whose own action throws
  `out_of_range` stays in `fd_lookup` unwatched (`dropped` in `WatchedAreOwned`);
* a deadline on the full second makes `wait_dequeue_timed` return without an item
  (`refused` in `TokensMatchItems`, the assert of line 748);
* in `simple_rpc` a message of size 0 ends the connection, whose client then waits
  for its answer for ever, and every connection that ends costs a
  descriptor (`Readable`, `TerminatesOnlyIf`).

## 6. Not modelled

* Weak memory: the fences of `atomicops.h` are what makes sequential consistency
  a fair picture of the queue; TLC explores sequentially consistent
  interleavings only. The semaphores of other operating systems.
* A shutdown of the receiver: `~receiver` sets `alive` to false and nothing wakes
  the workers; no test or user does it, and nothing says what should happen.
* The users' side of `async_tick` and `underlying_fd`: EPoll objects like others,
  which `Epoll` covers for any user; what they do is not in this repository.
* Frames of more than 65535 bytes, whose size does not fit the header: no check
  and no promise in the code.
* Fine detail of two receives: the two bytes of a socket id are one piece in
  `Receiver`, so a client that dies between them (which ends the process, like a cut
  anywhere else) is missing; and in `simple_rpc` the message is read into an array
  on the stack, of a size the client names (simple_rpc.cpp 97), whose overflow is not
  modelled.
* What a caller does that catches `dead_code` with `catch (...)` and goes on with its
  connection: the chunk it asked too much of is gone (`PopOversized`), and no
  property speaks of that connection any more.
* `Socket::peek`, `connect`, `set_timeout`: they pass arguments to the kernel.
* `local_connection` (one thread, a byte vector), the templates of
  `connection.hpp` and the serialization helpers (no state), the draft
  `dual_connection2.hpp` (nothing includes it), interfaces, tests.
