# A verification development of PCGForUnity

PCGForUnity is a C++ library (`src/cppLib/code`) behind a Unity project: it generates
terrains on a background thread, keeps an entity-component system, and talks to a world
server over KCP (a reliable protocol over UDP).  This directory models its concurrent and
protocol parts in TLA+, checks them with TLC and proves some of the results with TLAPS.
Paths below are relative to `src/cppLib/code` unless they start with `src/`.

## 1. Inventory

### Threading (`Threading/`)
* **Thread pool and manager** -- `ThreadPool`, `ThreadManager`.  State: the task queue
  `m_qTasks`, the flag `m_bStop`, the worker threads, a condition variable; the manager adds
  a mutex of its own and a global instance.  Operations: `AddTask`/`enqueue` (push under the
  mutex, notify after it), the worker loop (wait, take, run), the destructor (set the flag,
  notify all, join).  Everything long-running is a task of this pool: the receive loop
  `SelectThread`, the server's `SendDataHandler`, the map generator's `WorkThread`.
  Hard: a lost wake-up, a task dropped at shutdown, a worker never joined.
  Correct when: accepted tasks start once, in order, all of them; destruction returns and
  then nothing accepted is unfinished.
* **Condition notifier** -- `ConditionNotifier`: a mutex, a condition variable and a
  predicate given to the constructor.  One user: the socket server's send path.

### Network (`Network/Socket/`)
* **Write buffer queue** -- `WriteBufferQueue`: a vector of slots that are reused and never
  freed, and a count `_activepos`.  `Push`, `Front`, `Pop`, `Flush` (an unstable `std::sort`).
  Correct when: no datagram is overwritten, lost or kept, and the count tells the truth.
* **Socket server, sending** -- `SocketServer::Send`, `SendDataHandler`, `StartUp`, `Stop`.
  `Send` runs on any thread under `_sendLock`; the handler runs on the pool and takes no lock.
  Correct when: only what was handed to the socket is released, and an
  accepted datagram is sent.
* **Socket server, sessions** -- `OnAccept`, `ReadHandler`, `CloseSession`, `OnSessionDead`,
  `Update`.  State: the maps of live and of sleeping sessions, the map of addresses waiting to
  connect, a 16-bit conversation counter.  The receive thread and the main loop both use them,
  with `_sessionLock` held on some paths only: `ReadHandler` looks a session up under the lock
  and uses it after, `OnAccept` inserts under another holding of it.
  Correct when: an address has one live session, and a session that counts as connected is in
  the table until its end.
* **KCP protocol** -- `ikcp.c`: one control block at each end with a send queue, a window of
  unacknowledged segments, an out-of-order buffer and a receive queue, an acknowledgement
  list and window probes.  `ikcp_send`, `ikcp_recv`, `ikcp_input`, `ikcp_flush`.
  Hard: datagrams lost, repeated and reordered; stale windows and acknowledgements; queues at
  their limit.  Correct when: it is a reliable ordered channel of whole messages.
* **KCP session** -- `KcpSession`: one KCP block, a status, buffers.  `OnReceive` feeds a
  datagram and reads one message; `Update` drives the timers; `Close`, `OnDisconnected`.
  Correct when: every path that takes it from the table tells the other side once.
* **KCP client** -- `KcpClient`: connect with one retry per second, a heart-beat, an 18 s
  time-out, a KCP block of its own, an `Update` and a receive thread.
  Hard: an acceptance between the decision to retry and the retry; repeated accept packs; a
  disconnect that is lost.  Correct when: it settles, keeps one conversation, and finds out
  when nobody serves it any more.
* **Sockets** -- `CSocket` and its UDP variants: system calls around a connected flag.
* **Message buffer** -- `MessageBuffer`: bytes with a read and a write position.

### Server (`server/`)
* **Main loop** -- `Server::MainLoop`, `ShutDown`, `ShutdownServ`, `_UpdateGameTime`: a state,
  a shutdown timer and flags.
* **World** -- `World`, `WorldSession`: the session map, the login queue and the map of recent
  disconnects; `AddSession_`, `UpdateSessions`, `RemoveQueuedPlayer`, `HasRecentlyDisconnected`.
  New sessions come from the receive thread through `addSessQueue`.  Correct when: no session
  of the socket server is forgotten, and the queue lets in exactly as many as the limit.

### Data structures and the entity-component system
* **ECS** (`ECS/`) -- `StableArray` keeps components in one growing array with a free list and
  hands out raw pointers; `ISystem` replaces stale pointers through event callbacks;
  `SystemContainer` dispatches on the catalog and updates the systems in their priority's order.
  Correct when: no owner holds a stale pointer, and no place is given out twice or lost.
* **Queues** (`Utinities/`) -- `MPSCQueue` (lock-free), `LockedQueue`, `ProducerConsumerQueue`.
* **Priority list** (`Utinities/PriorityList.h`) -- a singly linked list ordered by
  priority; its one user is the list of systems.
* **Time** (`Utinities/Timer.h`, `game/Time/`) -- a 32-bit millisecond clock, an average of
  the last update times.

### Generation (`Generator/`)
* **Map generator** -- `MapGenerator`: a worker loop generates terrains from a list and puts
  the finished ones on a queue that the main thread drains; flags and a mutex in between.
* **Terrain algorithms** -- diamond-square, noise, smoothing, painting, mesh: floating-point
  data, no state worth a model.

### Around the library
* **Programs and bridge** -- `client/`, `chatserver/`, `Bridge/`, and the Unity
  scripts under `src/Project`: entry points over the components above.
* **Logger**; vendored code (`dep/`, `rapidxml`, protobuf) is left aside.

### How they interact
`Server` owns a `SocketServer` and a `World`.  `SocketServer::StartUp` gives the thread manager
its send handler and, through the socket, its receive loop.  The receive loop calls
`ReadHandler`, which finds or accepts a session and calls `KcpSession::OnReceive`, which calls
`ikcp_input` and `ikcp_recv`; `ikcp_flush` calls back into `KcpSession::fnWriteDgram`, which
calls `SocketServer::Send`, which pushes on the write buffer queue and notifies the handler.
The main loop calls `SocketServer::Update` and `World::Update`.  `MapGenerator` is fed by the
main thread and runs on the same thread pool.  The list of what is hard to test, each at its
line, is `hazards` in `PROJECT.json`.

## 2. Modules

| module | models | run |
|---|---|---|
| `ThreadPool`, `MCThreadPool` | thread pool and manager | `thread_pool` |
| `ThreadPoolProofs` | its theorems | |
| `WriteBufferQueue` | the queue alone, any size | `write_buffer_queue` |
| `SocketSender` | `Send`, `SendDataHandler`, `StartUp`, `Stop` and the notifier, over the queue module | `socket_sender`, `socket_sender_delivery` |
| `SocketSenderProofs` | the theorems of the queue and of the sender around it | |
| `MapGenerator` | the hand-over of terrains from the generator's worker to the main thread | `map_generator`, `map_generator_destroy` |
| `MapGeneratorProofs` | its theorems | |
| `ReliableChannel` | abstract: what a conversation promises | |
| `Kcp`, `MCKcp` | both ends of a KCP conversation and the network | `kcp` |
| `KcpProofs` | its theorems, and that it implements `ReliableChannel` | |
| `Sessions` | the session tables, the receive thread and the life of a session | (extended by the next two) |
| `World` | `World` and its sessions on top of the tables | `world` |
| `Handshake` | a `KcpClient`, the network and the tables | `handshake` |
| `SessionsProofs`, `WorldProofs`, `HandshakeProofs` | lemmas about the tables and the theorems of the two | |
| `Ecs`, `MCEcs` | one system of the entity-component system and the owners of its components | `ecs`, `ecs_timers` |
| `EcsProofs` | its theorems | |
| `PriorityList` | the list of systems | `priority_list` |

### ThreadPool
`queue`, `stop` are `m_qTasks`, `m_bStop`.  `worker[w]` is the place of a worker: `"check"`
(about to evaluate the predicate under the mutex), `"wait"`, `"run"`, `"exit"`.  Every access to
the shared state is under `m_mutex`, so a critical section is one action (`AddTask`, `Wait`,
`Take`, `Exit`, `Stop`), and the notifications, which the code issues after unlocking, are
steps of their own (`NotifyOne`, `NotifyAll`), as is the return of a task (`Finish`).  The
condition variable is the set of workers in `"wait"`; it may wake one for no reason
(`SpuriousWakeup`).  `ThreadManager::AddTask` holds its own mutex across `enqueue`, which is
`ManagerFree`.  `LoopTasks` are the tasks that run until their owner ends them.

### WriteBufferQueue
`writeList`, `activepos` are the members.  `Push` is `PushReuse` (a hole is overwritten and the
list flushed) or `PushAppend`; `PushRefused` is the call that returns false.  `Flush` allows
every arrangement an unstable sort with the code's comparator may return.  That comparator puts
*inactive* slots first, so the count of leading active slots is 0 whenever there is a hole;
`ActivePosExact` states the consequence.  `pushed` and `popped` are history.

### SocketSender
Extends the queue.  `sender[c]` is where a thread is in `Send` (`"checked"` after the unlocked
test of `Connected()`, `"locked"` while it holds `_sendLock`), `handler` where `SendDataHandler`
is, `notifier` the life of the `ConditionNotifier`.  The handler takes no lock, so `Front`,
`SendTo` and `Pop` are separate steps.  `Stop` closes, notifies and deletes in three steps; a
use of the deleted notifier is undefined in C++, and the model stops that thread (`"fault"`).
`StartUp`'s own `NotifyAll` comes before any thread can wait and has no effect.
Each queue operation is one step although `Push` and the handler may touch the same
`std::vector` at once: what that data race does inside the vector is not enumerated.

### ReliableChannel and Kcp
`ReliableChannel` has two actions: a message is sent at one end, the next unread one is
received at the other.  `Kcp` has the control block's fields, indexed by the end; `snd_buf` and
`rcv_buf` are functions from sequence number to fragment.  `Send`, `Recv`, `Flush` and `Input`
are `ikcp_send`, `ikcp_recv`, `ikcp_flush`, `ikcp_input`.  Abstractions:
* no time: at a flush any set of segments (`due`) may have an expired timer, and the probe timer
  may have expired or not, which covers every value of the round-trip estimate and of `rto`;
* a payload is its message number and fragment number; message mode only (nobody sets stream);
* both ends run `nocwnd = 1`, so the congestion window is not in the model; fast resend is on
  its first skipping acknowledgement (`resend = 1`), so a set suffices for the counters;
* acknowledgements and window commands travel in one datagram, each data segment in one of its
  own; `ikcp_flush` packs them up to the MTU, which the network can produce by delivering
  the parts back to back;
* sequence numbers do not wrap (`ikcp.c:135` is listed as a hazard for later);
* `state = -1` after `dead_link` sends is not modelled: nothing reads it.

The network holds at most `NetCap` datagrams; a flush may lose any of them, old and new,
and a delivery may keep the datagram for another one.

### MapGenerator
`worker` is the place in `WorkThread`, `main` the place of the main thread: the binding that
starts a generator, `UpdateInMainThread` with its callback, `Stop`, `Destroy`, and `DestroyCPP`,
which joins.  The Unity script calls `InitTerrainInMainThread` from inside the callback
(`src/Project/Assets/Scripts/Terrian/Terrian.cs`, `TerrainPiece.cs`), so while
`m_generatorMtx` is held; that is what the hand-over rests on, since neither that function nor
the reading of `m_pCurrentMap` takes the mutex itself.  Filling the buffer is two steps with
the value `Torn` in between, so a read without the mutex would show.  `copy` is the terrain
number the buffer was filled with.  `GenWorldMap` asks `IsStopped` at most `Polls` times, in two
reads of the static instance; the code asks once per point of the map.  The script creates one
generator per run of the program; a second `InitilizeWorldMap` is not modelled.  The concurrent
accesses to the static `shared_ptr` are a data race of which only the two orders of whole
operations are modelled.

### Sessions
`live`, `sleeping` are `m_mSessions`, `m_mSleepSessions`, keyed by conversation; `kcp` holds the
`KcpSession` objects in the order of their creation, dead ones included, so that a session that
was replaced can be compared with the one that replaced it.  `rx` is the place of the receive
thread with the session or remote it remembers.  A step is one holding of `_sessionLock` with
what its thread does around it: `Lookup` (under the lock), then without it `Accept` and
`OnConnected`, or `OnReceive` on the session that was found, which the main thread may have closed
meanwhile.  Closing is `CloseSessions`, with `KcpSession::OnDisconnected` inside, shared by
`Close`, `Disconnect` and the two refusals of `OnReceive`; `UpdateSleeping` is the keep-alive.
Abstractions:
* a datagram is its sender and the number at its front, a conversation or the accept pack; the
  messages of a session that matter are the sequence `sent` (for `World` none are recorded);
* `MaxConv` stands for the 2^16 of the conversation counter; the server's number, in the lower
  half of the conversation on the wire, is 0, as `Server.cpp:37` sets it;
* an accept pack comes in one piece; `m_mWaitingForConnections` keeps the pieces of one that
  does not, and is left out;
* the status that the constructor leaves uninitialised is either of the two values;
* two threads that use one `std::map` at once are undefined behaviour, of which only the orders of whole
  steps are modelled.

### World
Adds the accept callback (`Greet`, on the receive thread) and the main thread: `AddSession`,
`LoseConnection`, `TimeOut`, `Sleep`, `OnServerShutDown`, and the public `KcpSession::Disconnect`, for
which the main thread stands in as caller: the repository has none, the properties hold with one.
`Disconnect` holds no lock until its `CloseSession`, so it is three steps, with those of the receive
thread in between: it sends whatever the status is (`DisconnectTells`), sets the status
(`DisconnectMarks`) and closes what has the conversation by then (`DisconnectCloses`).  `ending` is the
place in it; the main thread begins nothing else meanwhile (`MainIdle`).  So a session may tell its end
twice, and no property of World says otherwise.
`UpdateSessions` visits an unordered map, so each session's update is a step of its own.  `inQueue`
are the sessions whose `m_bInQueue` is set.  Time is left open: any session that may be idle may
time out at any time.  `HasRecentlyDisconnected` subtracts its times the wrong way round, so
`disconnects` never gets old, as in the code.  The code never assigns `m_playerLimit`;
`PlayerLimit` is any number, 0 for no limit.

### Handshake
`client` is the `KcpClient`; `conv` its KCP block's conversation, `next` the number of the message
that block waits for, `tries` and `silent` what it counts towards its two time-outs.  `timeOut` is
`m_nConnectTimeOut`, any of `ConnectTimeOuts`: up to 0, which is what `client/Client.cpp:50` sets, the
client never gives up, and a time-out shorter than `ReconnectInterval` ends the first attempt
(`GivesUp`).  `Update` is split between deciding to connect again and doing so, because the receive
thread runs in between.  The network
may drop, delay, reorder and, for data, repeat: an accept pack in flight is received once or
never, with at most `MaxPacks` of them, a data datagram any number of times, and every message a session ever sent may still
arrive, in KCP's order -- that it does is what module `Kcp` shows.  An acceptance travels with
conversation 0 (`KcpSession::fnWriteDgram`), all else under the session's.  Heartbeats of a live
session come when the network lets them.  Uninitialised members (`m_bAlive`,
`m_nTimeOutTick`) start with any value.  `ServerClose` is any close by World: of every connected
session, the one the receive thread has found and not yet used included (between `SocketServer.cpp:150`
and `:179`), and not of one it has accepted and not yet handed to World.

### Ecs
`data`, `invalid`, `allocated` are the members of `StableArray`; `block` numbers the allocations it
has had, so that a pointer is a block and a place in it and a stale pointer shows (an address
that is freed and allocated again is taken as a new one).  `events` are the keys of `m_mEventMap`,
`pointer` what each owner holds.  Registering, unregistering, their events, setting a dirty bit
through the pointer, and `OnUpdate` are the actions.  The header defines `STABLE_TEST`, so every
change tells every owner; the model has that.  All calls come from one thread.

### PriorityList
`head`, `next`, `priority`, `wpos` are the list's and its nodes' members.  `AddSystem` and
`SetPriority` are the calls of `SystemContainer` with `priorityList::add`, `ResetPriority` and
`Node::insertAfter` inside.  A list whose links form a cycle is left as it is: the code would
walk it for ever.

## 3. Runs, bounds and fairness

* **thread_pool** -- 2 workers, 2 callers, 4 tasks of which one loops.  Two workers and two
  callers are the least with which two notifications can race for sleepers; the queue can hold
  more than the workers.  `AcceptedInOrder`, `NoLostWakeup`, `StopWakesAll`,
  `JoinedAfterAllTasks`, and the liveness `EveryTaskStarts`, `DestroyReturns`.  Fairness: weak,
  per worker, per notifying caller and for the destroying thread: the system runs a thread that
  can run.  None for adding tasks, ending loops, destroying, or spurious wake-ups.  The mutex
  is not a variable, so weak fairness of a worker assumes that a thread waiting for `m_mutex` gets
  it eventually; workers contending with each other for tasks do not disable each other's steps.
* **write_buffer_queue** -- 4 slots and 6 datagrams, so holes, reuse, every sort result and a
  refused push all occur.  `Kept`, `ActivePosExact`.
* **socket_sender** -- 2 senders, 3 slots, 4 datagrams, so that pushes append, are refused and fill the
  slot the handler has emptied.  `PoppedWasSent` (the unlocked handler) and `UsesQueue`, the refinement
  of `WriteBufferQueue`: no thread pops a queue that reports nothing or pushes a datagram twice, so what
  the run above shows of the queue holds in the server.  Safety only, so no fairness.
* **socket_sender_delivery** -- expected violation, see findings.  Fairness, so that it is not merely
  the threads that stop: weak for start-up, the handler and `Stop` once begun; strong for a sender,
  which competes for `_sendLock`.
* **map_generator** -- three terrains, so that the buffer is reused twice; two polls, so that
  `IsStopped` is asked again after it answered no.  `HandedOver`, `OneFinished`, and the liveness
  `AllHandedOver`, `QuitReturns`.  Fairness: strong for the worker and for the update of the
  main thread, which Unity calls every frame: they compete for `m_generatorMtx`, and the waiting
  one gets it in the end; weak for the steps of quitting once begun.  Nothing forces quitting.
* **map_generator_destroy** -- expected violation, see findings.  One terrain.
* **kcp** -- one direction, three messages of 2, 1, 1 fragments, send window 2, receive window
  3, two datagrams in flight.  The receive queue fills, the window closes and is probed, and
  segments overtake each other.  `AckedIsReceived`, `SendWindow`, `NothingStranded`, and
  `Reliable`: the refinement of `ReliableChannel`.  A script in both directions is
  symmetric and exceeds what TLC finishes here; the two directions share only `acks`, `wnd` and
  `una` in a datagram.

* **world** -- 2 remotes, 4 sessions over 3 conversations, so the fourth session reuses one; a
  player limit of 1, so that the second session queues; a keep-alive of one update.
  `OneSessionPerRemote`, `LiveHasOwner`, `OnlyReuseStrands` and `AdmissionExact` relate the tables,
  the queue and the two threads.  Safety only, so no fairness.  The same model was run with limits
  0 and 2, three remotes and five conversations, without an error.
* **handshake** -- one client, 4 sessions over 3 conversations, two accept packs in flight, no connect
  time-out, one shorter and one of three times `ReconnectInterval`, two updates of silence, one
  reconnection.  The sessions get conversations 1, 2, 0 and 1: a client may be offered another
  conversation than its own, the wrap to 0 happens, and the fourth session may be closed while the
  first, of the same conversation, still sleeps, where `insert` finds its place taken.
  `NoSilentDrop`, `BoundOnce`, and the liveness `OrphanStops`, `ConnectSettles` (of a client with a
  time-out; one without may try for ever), `SleepersLeave`.  The last one is claimed for one client:
  with two, a conversation is given out again while its session lives, and `OnConnected` may revive a
  session that a close has just put to sleep, which then never leaves.  Fairness: weak for the steps of
  the client's `Update`, called every 15 ms, and for the keep-alive of the server's, called every 10 ms.
  The network, the heartbeats and World promise nothing: the client finds out by itself.
* **ecs** -- 4 components and `MinElements` 3 (32 in the code), so the array is allocated, grows
  to the minimum and triples: blocks of 1, 3 and 10.  Holes exist before and after each.
  Components are interchangeable, hence the symmetry.  `PointersCurrent`, `HolesExact`.
* **ecs_timers**, **priority_list** -- expected violations, see findings.

`CHECK_DEADLOCK FALSE` everywhere: each program part may really stop (a joined pool, a
stopped server, a conversation whose messages were all read, a queue whose datagrams are used up,
sessions at their bound).

`PROJECT.json` gives each property a mutant of the code's definition under which it fails.

### Findings
`map_generator_destroy`: a generator may exist after `WorldMapBindings_Destroy`.  `IsStopped`
(`MapGenerator.h:39`) runs on the worker and calls `HasInstance` and then `GetInstance`; if
`Destroy` clears the static pointer between the two, `GetInstance` makes a new object, which
stays.  The binding's comment in `Terrian.cs:63` says "destroy generator".  `QuitReturns` holds all
the same, because the new object does not run and so stops the worker.

`socket_sender_delivery`: a datagram that `Send` accepted is not eventually sent.
`StartUp` submits `SendDataHandler` once, before the socket is open; the handler looks at the
queue once, finds it empty and returns; no one submits it again, and the notifications of `Send`
have no listener.  The comments of `SocketServer.cpp:118` and `WriteBufferQueue.cpp:47` name only
a closed server and a full queue as reasons to ignore a datagram.

`ecs_timers`: `SystemContainer::UnRegisterComponent` has no case for `INTERVAL_TIMER`, so the two
timers of each `WorldSession` stay in the array for ever, against the comment of `ISystem.h:177`
about what removing does.

`priority_list`: `priorityList::add` of what belongs before the head calls `insertAfter` so that the
old head's successors are lost, or, when the head itself is raised, so that the node follows
itself and `SystemContainer::OnUpdate` never returns while it holds `m_systemMtx`.  The comment of
`PriorityList.h:87` promises iteration, and the test `ECS_Test` calls `OnUpdate` after each
`SetPriority`.

What the models show of the code without a doc that says otherwise, so without a run:
* `RemoveQueuedPlayer` lets the head of the queue in without resetting its `m_bInQueue`, so an
  admitted session never counts as idle; `AdmissionExact` speaks of those that still queue.
* A repeated accept pack that reaches the server after the first was answered is read as KCP,
  carries the number of another server, and closes the session that had been accepted.
* `KcpClient` never resets `m_nReconnectTime`, and its socket is not opened again once closed,
  so a client connects at most once in its life.
* Every 65536th session gets conversation 0, which the client takes for a failure while the
  server keeps the session until it is idle.
* `World::OnServerShutDown` leaves the sessions that wait in `addSessQueue` open.

## 4. Proofs

For every value of the constants, from the modules' named assumptions.

`ThreadPoolProofs` (assumption `PoolAssumption`: finite, non-empty workers, finite callers).
`TypeCorrect`, `OrderCorrect`, `WakeupCorrect`, `StopCorrect`, `JoinCorrect`: each is
`Spec => []P`.  The inductive invariant `IInv` adds to the properties what they rest on:
a pending caller is unique; `stop` is set exactly when the destroyer has begun; a worker exits
only after `stop` and with an empty queue, and then the queue stays empty because a stopped pool
accepts nothing; every started task is running or finished.  `NoLostWakeup` is inductive only
with the case where a notification finds nobody asleep: then no worker waits and the property
says nothing.  An empty set of workers would let the destructor join at once with tasks
queued, hence `Workers # {}`, which `ThreadManager` ensures with its default of four.
`RunOnceCorrect` says that no two workers run one task and no finished one is run again.  It needs
`AcceptedOnce`: each call of `enqueue` queues a task of its own, so the head of the queue is among
neither the running nor the finished.

`SocketSenderProofs` (assumptions `QueueAssumption`, `SenderAssumption`: a positive bound; the mark
for "no datagram" is none).  Of the queue: `TypeCorrect`, `KeptCorrect`, `ActivePosCorrect`.
The lemma about `Flush` says that a permutation moves slots without changing what is active; the
inductive invariant also has at most one hole.  Of the sender: `SenderTypeCorrect`,
`PoppedWasSentCorrect`, `SenderUsesQueue`.  `SenderUsesQueue` is `SenderSpec => UsesQueue`: every step of the server's threads is a step of the queue or leaves it alone, so what is
proved of the queue holds in the server.  It needs that no thread pushes a datagram twice
(`Unpushed`, `OneCallEach`).  `PoppedWasSent` rests on `NotPoppedYet` and `FrontIsFirst`: the handler pops
once in its life, so from `Front` to `Pop` the queue has no hole, `Push` can only append, and the first
slot keeps the datagram the handler took -- although no lock is held.  A handler that popped in a loop
would not be covered by this argument.

`KcpProofs` (assumption `KcpAssumption`: two ends, positive windows, messages of at least one fragment).
`KcpTypeCorrect`, `AckedIsReceivedCorrect`, `SendWindowCorrect`, `NothingStrandedCorrect`,
`ReadInOrderCorrect`, `ForwardOnlyCorrect`, and `ImplementsChannel`, `Spec => Reliable`: initial states are initial states of `ReliableChannel`, and each
step of KCP is one of its steps or a stutter.  The difficulty is that no variable says which
fragment belongs to a sequence number.  The invariant says that a stream exists (`Streams`: for each end a
sequence `st` of all fragments it was ever given and the places `at` where messages start), of which
everything queued, unacknowledged, in the network, out of order and in order at the peer is a part;
what `ikcp_recv` returns is then the stream's next message, because the queue starts where a message
does (`ReadUpTo`).  `ReadInOrder` says the same of a state: what was read is the first messages sent,
whole.  `ForwardOnly` is about a step: whatever old datagram arrives, una, sn and the receive window never
go back, a number keeps its fragment until it is acknowledged and is not assigned again, and what came
out of order is kept.  `AckedIsReceived` needs `AcksTrue`: every acknowledgement, queued or in flight, is of a
segment its sender has.  TLC checked the invariant on the instance of the run `kcp`, with the
concatenation of `sent` and its prefix sums as witnesses.  `Least` is a `CHOOSE`, so `LeastExists` is proved
from the well-foundedness of `<`.

`MapGeneratorProofs` (assumption `GeneratorAssumption`: at least one terrain; the code's count is
a square of a ratio of map sizes, which the script's values make 256).  `TypeCorrect`,
`OneFinishedCorrect`, `HandOverCorrect`.  The inductive invariant `IInv` says what each phase of
the worker implies: nothing is queued from the loop's test to the copy (`Making`), an unstopped
worker leaves its wait with the queue empty (`Holding`), during a callback the worker has not
begun the next terrain (`InCallback`), and every finished terrain is delivered, on its way or queued
(`Counted`).  `InCallback` is where `InitilizeNext`'s mutex is needed: without it the step that
creates the next map could happen during a callback.

`SessionsProofs`, `WorldProofs`, `HandshakeProofs` (assumptions `SessionsAssumption`,
`WorldAssumption`, `HandshakeAssumption`: some remote, positive counters, the client is one of the
remotes and reads every kind of message; its connect time-out is any integer).  `SessionsProofs`
proves once what each step of the tables keeps; the other two prove that their steps are such steps.
`TablesInv` has, beyond the types: a table holds a session under its own conversation (`AtHome`);
between the look-up and the insertion nobody makes a session of the same remote (`UnknownFree`), which
is what one receive thread gives and the lock does not; only the newest session is about to be greeted
(`AcceptedNewest`); and a session that is, or is about to be, connected but not live reuses a
conversation (`StrandedReuses`).  Beside it `LiveConnected(E)`: what is live counts as connected, so
that `Close`, which asks the status, will close it, except the sessions in `E`, whose end has begun:
the one `Disconnect` has marked in World (`Ending`), none in Handshake.
`Closing` says what every closing step does to every session: it keeps remote and conversation,
unsays nothing, who stops being connected has been told, nobody is told twice, and who stays in the
table is not told.  `Untold` adds to `EndToldOnce` (a session sends one DISCONNECT, and none while it is
connected) that the session about to be greeted has not sent one: `OnConnected` would make a session
connected that has told its end.

*World.*  What is live is about to join or plays (`Held`) and is greeted once (`GreetedOnce`), and the
session `KcpSession::Disconnect` works on is one that World holds and the main thread keeps until it
returns (`EndingHeld`), so that a session it has marked does not lose its owner: hence
`RemoteCorrect`, `OwnerCorrect`, `ReuseCorrect`.  For the login queue `Queues` adds: `m_mSessions` has
sessions under their own conversation (`Keyed`); a session is added once and queued at most once
(`Once`); `m_disconnects` names sessions that were added (`Gone`); conversations are given out in
turn (`Numbered`), so that no two sessions share one until the counter wraps (`Distinct`).
`WorldTypeCorrect` and `AdmissionCorrect` follow.  The heart is `RemoveAdmits`: both calls of
`RemoveQueuedPlayer` count the players from before the removal.  If the one removed was waiting, all
places are taken and neither call lets anybody in; if not, the first call sees one place free and
lets the head in, and the second, counting one waiting session less, sees none.

*Handshake.*  `RemoteCorrect`, `BoundOnceCorrect`, `NoSilentDropCorrect`, `EndToldOnceCorrect`.
`BoundOnce` rests on the conversation of the wire: an acceptance carries 0, which a bound client's KCP refuses.
`NoSilentDrop` follows from `Home` (what is, or is about to be, connected is live) and `Told` (every
other session has sent DISCONNECT).  `Home` holds here although World's `OnlyReuseStrands` allows
exceptions: all datagrams are of one address (`Ours`), which has one live session, so a conversation
is never given out while its session lives, however often the counter wraps.  `EndToldOnce` holds
here, even where World closes the session the receive thread has found: both come to `OnDisconnected`
under `_sessionLock`, and the second finds nothing to close.  With `Told` it makes the DISCONNECT of
every session that ended exactly one.  It is a theorem about the program as it is, in which nothing
calls `KcpSession::Disconnect`; with a caller, as in World, a session may tell its end twice, and there
is no such theorem about World.

`EcsProofs` (assumption `EcsAssumption`: `MIN_ELEMENTS` is positive).  `TypeCorrect`, `HolesCorrect`,
`PointersCorrect`.  The inductive invariant adds that a component is in the array at most once,
that an owner without event holds no pointer, and that allocated memory is in a block.

Every invariant and every action property that a passing run checks is also a theorem, and TLC
checked each inductive invariant on a small instance before it was proved.  `RunOnce`, `ReadInOrder`,
`ForwardOnly` and `EndToldOnce` are theorems beyond what the runs check; they were checked on the instances
of the runs too.  Only model-checked:
liveness, for which tlapm has no reasoning about fairness or ENABLED, and the violations of section 3.
Out of reach of the prover as well: induction over data, hence what a recursive definition
computes for all inputs; the models use functions and `CHOOSE` where the proofs need to look inside
(`Erase` is the search loop of `RemoveQueuedPlayer` written so).

## 5. Plan

Done: threading, the send path, the map generator, KCP, the session tables with World and with
the client, the entity-component system and its list.  Left, in this order:

1. **Proofs**: `ReliableChannel` for the sessions above KCP, once they are modelled; the safety half of
   the liveness properties (what holds while a waiting thread waits).
2. **Kcp liveness**: under a network that keeps delivering, every message sent is read
   provided the application keeps reading (the probe after a lost `WINS`).
3. **Sessions over Kcp**: one `ikcp_recv` per datagram, the pieces of an accept pack.
4. **Server main loop**: shutdown states and timer over `World`.
5. **Queues and time**: `MPSCQueue` as a refinement of a FIFO, the wrap of the millisecond clock.

## 6. Not modelled

Terrain, noise, mesh and painting algorithms (floating point, no protocol); the byte layout of
KCP segments and of the message buffer; system calls; logging; the Unity scripts and C bridge;
vendored code.  Of the modelled components: accept packs in pieces, lookups and setters nobody
calls, `priorityList::erase` and the destructors of the entity-component system; the `Close` that the
destructor of `WorldSession` repeats (`WorldSession.cpp:22`), and the use of a session found by the
receive thread after its `WorldSession` has been destroyed.  That a sender or the handler uses the
notifier `Stop` has deleted is undefined; the model ends that thread there and states no property of it.  Two paths are
undefined or unreachable as the repository uses them: `KcpSession::ReadHandler`'s error path would
take `_sessionLock` twice, but the repository's handler always returns true; the read of four bytes
that an ACK-only datagram does not have has no effect on the status.  Components planned but
not yet written are `not_modelled` in `PROJECT.json` with a note.
