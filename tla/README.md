# Verification of the V-OS socket library

V-OS runs the FreeBSD 13 network stack as a library in a user process.
Programs do not call its sockets directly. They use `fstackutils`, a library
of reactors, connectors, acceptors, transports and thread proxies, and that
library is what this project models: it has the threads, the queues, the
deferred deletions and the descriptors that are hard to test.

All paths below are relative to `src/src/`; without a directory they are in
`fstackutils/src/`.

## 1. The system

### Parts and how they interact

A *reactor thread* runs `CFSReactorEpoll::RunEventLoop`: timers, then
`vos_epoll_wait`, then the batch of ready descriptors, then the event queue.
Other threads hand it events with `PostEvent` (asynchronous) or `SendEvent`
(waits for the result) and wake it through a socket pair, the *notify pipe*.
One reactor thread is the *network thread*: it owns all sockets. The first call
of `IFSConnectionManager::Instance` creates it, through the kernel's
`kthread_add_` and a thread of the host. Users live on
other threads and hold *proxies*, which turn each call into an event for the
network thread and each callback into an event for the user thread.

    user thread                          network thread
    CFSStreamBase
      CFSConnectorThreadProxy  --events-->  CFSConnectorWrapper, CFSConnectorTcpT
      CFSTransportThreadProxy  <--events--  CFSTransportTcp
    server
      CFSAcceptorThreadProxy   --events-->  CFSAcceptorTcp, CFSAcceptorUdp
                                            handler repository, epoll on kqueue

### Inventory

| part | code | state | operations | module |
|---|---|---|---|---|
| event loop | `CFSReactorEpoll`, `CFSThreadReactor` | stop flag, epoll descriptor | Open, RunEventLoop, StopEventLoop, Close | `Reactor`, `Startup`, `NetThread` |
| event queue | `CFSEventQueueBase` | list, size, mutex | PostEvent, SendEvent, PopPendingEvents, ProcessEvents, DestoryPendingEvents | `Reactor`, `Startup` |
| notify pipe | `CFSReactorNotifyPipe`, `CFSPipe` | two sockets | Open, Notify, OnInput, Close | `Reactor`, `Startup`, `NetThread` |
| handler repository | `CFSReactorBase` | descriptor -> handler, mask | RegisterHandler, RemoveHandler, NotifyHandler, ProcessHandleEvent | `NetThread` |
| epoll on kqueue | `freebsd/epoll/vos_epoll.c` | edge-triggered filters | epoll_ctl, epoll_wait | `NetThread`, `Reactor` |
| TCP connector | `CFSConnectorWrapper`, `CFSConnectorTcpT` | transport, timers | AsycConnect, CancelConnect, OnOutput, OnClose, OnTimeout | `NetThread` |
| TCP acceptor | `CFSAcceptorTcp` | socket, sink | StartListen, StopListen, OnEpollInput | `NetThread` |
| TCP transport | `CFSTransportTcp`, `CFSTransportBase` | socket, sink, m_bNeedOnSend | SendData, OnInput, OnOutput, Disconnect, OnClose | `TransportProxy`, `NetThread` |
| transport proxy | `CFSTransportThreadProxy` | references, stop flag, send buffer, three flags | SendData, OnSend, OnReceive, OnDisconnect, Disconnect, deletion | `TransportProxy` |
| connector and acceptor proxies | `CFSConnectorThreadProxy`, `CFSAcceptorThreadProxy`, `CFSAcceptorConnectorSinkThreadProxy` | references, stop flag, sink, actual object | AsycConnect, CancelConnect, StartListen, StopListen, OnConnectIndication, deletion | `ConnectProxies` |
| stream | `CFSStreamBase` | connector, transport, send and receive buffer | Connect, SendMessage, OnReceive, OnSend, OnDisconnect, Close | `Stream`, `TransportProxy`, `ConnectProxies` |
| UDP | `CFSAcceptorUdp`, `CFSTransportUdp`, `CFSConnectorUdpT` | table of transports, sockets | StartListen, StopListen, OnEpollInput, RemoveTransport, SendData, Disconnect, Connect | `UdpAcceptor` |
| manager | `CFSManagerImp` | network thread | Instance, SpawnNetworkThread_i, RunNetworkThread; choice of clients and servers | `Startup` |
| threads of the port | `ports/src/port_thread.cpp` | map of threads, start event | thread_create, CreateThread, StartThread, MainThreadFun | `Startup` |
| kernel glue | `freebsd/api`, `freebsd/compat` | none of its own | kthread_add_; a `__sleep` that returns EWOULDBLOCK; argument conversion | `Startup`, `Reactor` |
| timer wrapper | `CFSTimerWrapperID` | m_bScheduled | Schedule, Cancel, OnTimeout | - |
| IP interfaces | `fstackutils/fsipstack` | map of interfaces | Create, Get, Destroy, input, output | - |
| rest of the port | `ports/src` | none | wrappers of locks, atomics, memory, time | - |
| clock device | `freebsd/sys/dev/vos_clock` | never started | - | - |
| FreeBSD stack | `freebsd/sys` | third party | - | environment |
| programs | `init`, `ipstacktcpclient`, `ipstacktcpserver` | tests and start-up | - | - |

What is hard in it: notifications sent outside the lock that guards the queue;
a pipe read one record per edge; a queue in use before its pipe is open; events
destroyed by two parties; flags of a
proxy read on one thread and written on another; reference counts that reach
zero on either thread; indications that arrive after the user has changed its
mind; descriptor numbers that are closed and reused inside one batch; filters
that fire once. `PROJECT.json` lists these hazards at the lines where they
bite, with the properties that would catch each one going wrong.

The base library (`CAW*`: threads, mutexes, timers, message blocks, reference
counters) is not in the repository. The models use what its callers rely on.

## 2. Modules

A step of a model is what one thread does between two points at which another
thread can observe it. Names of variables and actions are those of the code.

**`Reactor`** has one loop thread and any number of posters. `PostEvent`,
`SendEvent`, `StopEventLoop`, then `Notify` as a step of its own because the
code writes to the pipe after it has released `m_Mutex`; `LoopTop` ...
`ProcessEvents` ... `DestoryPendingEvents` follow `RunEventLoop` and `Close`
line by line through the program counter `loop`. A callback of the loop thread
may post and send events too. The pipe is a bounded sequence of records with an
edge, which the kqueue clears when it reports it. A full pipe refuses a record,
and `Notify` forgets it: the stack is built with a `__sleep` that does not sleep
(`freebsd/sys/kern/kern_synch.c`).

**`EventService`** says what the queue promises: events fire one at a time and
at most once, each after those accepted before it; only an event that the loop
thread sends to itself overtakes; a closed reactor fires nothing. Its state is
the set of pending events, for each of them the ones ahead of it, the set of
fired ones and whether the reactor is open. `Reactor` implements it:
`ServiceSpec` is the specification of `EventService` with these four read off
the queue, the list in hand and the event objects.

**`Startup`** extends `Reactor` backwards in time. `Instance`, `thread_create`,
`StartThread`, `AddThread`, `thread_cow_get_proc` and `thread_link` are the
thread that creates the network thread, on the main thread in one go and on any
other one by a `CThreadCreateEvent` in its own queue. `MainThreadFun` to
`SetStartFlag` are the new thread up to `RunEventLoop`. In between other threads
already post and send. The stop flag has any value before `Open` sets it, and
`m_Tid` is not set before `BaseOpen`, so that `SendEvent` may take its caller for
the loop thread (`SendEventInPlace`).

**`Stream`** is the receiving side of `CFSStreamBase`, over the life of an
object that closes and connects again: the buffer, its limit, the flag it sets
when it drops data, and the loop that hands the buffer to `HandleMessage`. The
subclass is any parser of messages that begin with their length; a byte carries
its position and the extent of its message, so that a misread boundary shows.
User code runs between any two steps, also inside `HandleMessage`. `whole`,
`kept` and `raised` are history variables.

**`TransportProxy`** follows one connection: a stream, its proxy, the TCP
transport below and the socket. Bytes are numbered, so that loss, duplication
and reordering show. `SendData` and `OnSend` of the proxy are split where they
read or write a flag that the other thread uses without a lock. Reference
counts are derived from who holds the proxy, the stream and the queued events:
what the code tests is whether the count is zero (`Unreferenced`).

**`NetThread`** is the network thread with all its handlers. `EpollWait` takes
the active filters into `batch`; `DispatchHandler` runs one entry of the batch
through `ProcessHandleEvent` and the whole callback it selects; `DispatchQueue`
runs requests of other threads in the middle of a batch, as the notify pipe
does. Requests are `AsycConnect`, `CancelConnect`, `StartListen`, `StopListen`
and `Disconnect`. `Handshake`, `PeerSends` and `PeerEnds` are the stack. A new
socket gets the lowest free number. The loop of the acceptor is one step that
opens the lowest free numbers, as many as there are connections to accept.
`AsycConnect` has every way to fail: no socket, a socket that cannot be made
non-blocking or registered, `connect()` refused. In the second case the transport
counts as cut at once, although the connector keeps it until its zero timer runs:
it has no handler and nothing reaches it in between.

**`ConnectProxies`** has the two event queues between a stream, a server and
the network thread, with the connector and acceptor proxies on both ends. The
connectors themselves are reduced to busy or idle; `NetThread` has the detail.
`Connect` and `Close` of a stream with a busy connector are two steps: they post
the cancel event and then drop the reference, and the network thread may take the
event in between (`call` says which of them is under way).

**`UdpAcceptor`** is UDP on the network thread: acceptors that share one table
of transports, transports that borrow the descriptor of their acceptor, and
connected transports that own one.

**`ReactorProofs`**, **`EventProofs`**, **`StartupProofs`**, **`StreamProofs`**,
**`TransportProofs`**, **`NetProofs`**, **`ProxyProofs`** and **`UdpProofs`**
hold the proofs. The `MC*` modules and the `.cfg` files are the instances for
TLC.

The modules rely on each other's results rather than on each other's state:
`TransportProxy` and `ConnectProxies` assume queues that deliver in order and
do not lose events, which `Reactor` shows, and `ConnectProxies` lets a connector
answer at most once, which `NetThread` shows. `Stream` takes from
`TransportProxy` that a connection delivers its bytes in order and none after
`Close`. `Startup` is composed with `Reactor` and runs its actions.

## 3. Runs

| run | instance | distinct states | shows |
|---|---|---|---|
| `reactor` | 2 posters, 2 events, pops of 1, pipe of 2 | 62 K | wake-ups are not lost and refused ones not needed, no event is used after deletion, results are right, `EventService` is implemented; events fire, senders return, a stopped loop closes |
| `startup` | 2 threads, one of them creating, 2 events, pops of 1, pipe of 1 | 105 K | the start event outlives its signal; events posted before `Open` fire and senders return |
| `stream` | messages of 1, 2 and 5 bytes, 9 bytes in all, limits 0 to 3 | 221 K | only whole messages are handled, none waits, drops hit only messages that do not fit and are final |
| `transport` | 3 messages of 2 bytes, socket of 3, 1 chunk received | 69 K | bytes in order, all data before the disconnect, no callback after the end, one destruction; refused bytes are asked for, buffered ones reach the socket, abandoned proxies die |
| `netthread` | 2 descriptors, 2 connectors, 1 acceptor | 781 K | filters follow masks, handlers own their descriptors, no descriptor leaks, one indication per connect, no lost edge |
| `netthread_live` | 2 descriptors, 1 connector, 1 acceptor | 67 K | every connect is answered or cancelled |
| `proxies` | 2 connects, 1 accepted connection, 2 listens | 255 K | indications are expected ones, no dangling proxy, assertions of the proxies hold |
| `proxies_live` | 2 connects, 1 accepted connection, 1 listen | 96 K | no transport is lost between the threads, dropped proxies are deleted |
| `udp` | 2 descriptors, 2 addresses, 2 peers, 3 listens, 3 transports | 951 K | the table is exact, sockets stay with their owners, assertions hold |

### Disagreements between the code and its comments

| run | what TLC finds |
|---|---|
| `startup_linked` | `kthread_add_` has the new thread created (`freebsd/api/so_kthread.c:77`) before it gives it credentials and links it, under the comment "Delay putting it on the run queue until now." (line 99). On the main thread it is created at once, and opens its kqueue while `kthread_add_` is still on its way. On other threads the order is kept (theorem `LinkedOffMain`). |
| `netthread_success` | A listener is stopped and a connect started by queue events in the middle of a batch. The new socket gets the descriptor number just closed, and the listener's remaining event is taken for the completion of the connect. |
| `udp_send_after_stop` | "the UDP transport will not SendData() successfully if the UDP socket is closed in UDP acceptor", says a comment of `CFSAcceptorThreadProxy::StopListen` (line 126). The handle of the transport is not reset, so it passes the test at `CFSTransportUdp.cpp:126`. Nothing behind it looks at the socket: `SendVTo` is not implemented (`CFSSocket.h:270`) and returns an uninitialised `int`, which `SendResults` leaves open, so that `SendData` may answer `CAW_OK`. For the same reason nothing is sent while the acceptor listens either. |

Seen while reading, without a run: `CAW_ASSERTE(0)` after the loop of
`RunEventLoop`, marked "ShouldNotReachHere" (`CFSReactorEpoll.cpp:169`), is
reached by every regular stop, since `StopEventLoop` sets the flag that the
loop tests. A timeout that is negative and not -1 would make the loop spin
(`CFSReactorEpoll.cpp:97`), and `EINTR` ends it (line 119); both depend on code
outside the library. `Send_i` traces the length of its argument before it tests
it for NULL (`CFSTransportThreadProxy.cpp:255`). `ProcessHandleEvent` says
"needn't check the registered mask if it is notify" (`CFSReactorBase.cpp:215`)
but still selects the callback by the intersection with that mask, so the
notification for a connect that succeeds at once calls nothing; `DispatchNote`
of `NetThread` models it, and `ConnectAnswered` holds because the write filter
fires as well.

### Bounds

- `Reactor`: with pops of one, two events suffice for a partial pop, for a
  synchronous event posted again behind another one and for a poster in
  between; a pipe of two fills up and refuses. Order among more events, larger
  pops and longer pipes are covered by the proofs.
- `Startup`: a pipe of one is refused at once; the creating thread and one
  other are the two kinds of users, and each can post and send.
- `Stream`: with a hard limit of 3, a message of 5 never fits, one of 2 always
  does, and 9 bytes are enough for a message before and after the one that is
  dropped and for a second connection.
- `TransportProxy`: a socket of 3 bytes cuts a message of 2 in the middle, and
  the third message arrives while a remainder is buffered. One chunk is enough
  to be on its way when either side ends the connection.
- `NetThread`: two descriptors make every third opening a reuse. Three users
  (two connectors, one acceptor) compete for them, and `MaxUnread` lets a
  backlog or unread data exist when the event is dispatched. The connectors
  are interchangeable, so the safety run uses their symmetry.
- `ConnectProxies`: two connects let an answer to the first meet the second.
- `UdpAcceptor`: three listens on two addresses have one address listened on
  again while the other is in use.

`CHECK_DEADLOCK FALSE` is given where the system may stop: a closed reactor,
a connection that has ended, users that have made all the calls the bounds
allow. `NetThread` has it on.

### Fairness

- `Reactor`: weak fairness of the loop thread and of a poster that is inside
  `Notify` or has been signalled. Threads are scheduled by the host and both
  run when they are not blocked. Nobody has to post or stop, and a loop thread
  with nothing to report may stay in `epoll_wait` for ever: the wake-ups alone
  carry the liveness properties.
- `Startup`: weak fairness of the creating thread once it has begun, of the new
  thread, of the loop thread and of the posters as above. Here an idle
  `epoll_wait` does return: as built it does not sleep, and an event posted
  before the pipe exists is found by such a turn of the loop and not by a
  notification. The properties name the one thread that can wait in vain: a
  creating thread, not the main one, that sends before its own queue has
  created the network thread (`SelfBlocked`).
- `TransportProxy`: weak fairness of both loops and of a peer that reads.
  Strong fairness for queue events, timers and the two filters of the socket:
  each is disabled while the network thread is inside another one, but every
  turn of the loop serves the queue, the timers and all ready filters, so none
  is passed over for ever.
- `NetThread`: weak fairness of the loop as a whole, whose phases all end, and
  of a handshake, which the stack gives up in the end.
- `ConnectProxies`: weak fairness of both queues and of the return from
  `SendEvent`, both shown by `reactor`, and of a `Connect` or `Close` that has
  begun. Connectors need not answer.

`Stream` has safety and action properties only.

## 4. Proofs

The proofs hold for every value of the constants under the assumptions named
in the modules. Each has one step or lemma per action and under it one per
conjunct the action can disturb. Type correctness of `Reactor`, `Stream` and
`UdpAcceptor`, `NoLostStop` of `Reactor` and `LinkedBeforeRunOffMain` of
`Startup` are established by proof alone.

### `ReactorProofs`

For all sets of posters and events, every `MaxGetOnce > 0` and every
`PipeCapacity > 0`; `NoEvent` is not an event.

| theorem | statement |
|---|---|
| `TypeCorrect` | `Spec => []TypeOK` |
| `WakeupNotLost` | `Spec => []NoLostWakeup` |
| `StopNotLost` | `Spec => []NoLostStop` |
| `RefusalHarmless` | `Spec => []RefusedNotifyHarmless` |

All four follow from `Invariance`, `Spec => []IInv`. The last three are not
inductive: they speak of a loop thread that waits, and what makes them true is
agreed on before it does.

- `SizeInv`: the recorded size is the length of the list until `Close`, or the
  size says nothing about the queue;
- `PipeInv`: an edge stands for a record that is still to be read, and a
  consumed edge for room in the pipe. It counts the record that the loop
  thread has been told of and has not read yet;
- `QueueWake`: over a non-empty queue there is, wherever the loop thread is, an
  edge, a thread that owes a record, or a loop that is going to look;
- `StopWake`: the same for the stop flag;
- `Holding`, `SenderInv`, `HandleInv`: what the program counters say about the
  list in hand, the sender's event and the open pipe.

### `EventProofs`

Under the same assumptions, for the life of the event objects:

| theorem | statement |
|---|---|
| `NoneUsedAfterDelete` | `Spec => []NoUseAfterDelete` |
| `ResultReturned` | `Spec => SendReturnsResult` |
| `ImplementsService` | `Spec => ServiceSpec` |

They rest on `LifeCycle`, `Spec => [](IInv /\ LInv)`. A synchronous event is
destroyed twice, by the loop thread after firing it and by the queue after its
sender has posted it again, and the second one deletes it. So an event can be
in the queue twice, at its head and behind it, and `LInv` says when:

- `QueueInv`: every event behind the head is fresh, or has been fired, its
  sender is gone, and the loop thread has destroyed it or is about to;
- `Distinct`: an event is in the queue twice only while the loop thread is
  between the signal and its own destruction of it (`Parting`);
- `HeadInv`: what the place of the loop thread says about the head;
- `SendInv`: what a blocked sender knows about its event, which no other
  sender has;
- `ListInv`, `UnusedInv`, `CountInv`: nothing is in hand outside
  `ProcessEvents`, unused events are nowhere, counters are at most 1.

For the refinement, each action is shown to be one step of `EventService` or a
stutter. `OnEventFire` is `Fire`: by `Distinct` the head is in front of every
other pending event and nothing is in front of it (`FirstIsFired`). Posting an
event again and destroying one stutter, because fired events are not pending.
The step with which the loop thread leaves its
loop, on the stop flag or on an error of `epoll_wait`, is `Shut`.

### `StartupProofs`

For all posters and events: `StartEventFound`,
`StartupSpec => []StartEventAlive`, and `LinkedOffMain`,
`StartupSpec => []LinkedBeforeRunOffMain`. The invariant `SInv` bounds how far
the new thread can be for each place of the creating one: `StartOrder` for the
start event, `InstOrder` for `kthread_add_`. The steps of the reactor leave
these variables alone.

### `StreamProofs`

For every set of positive message lengths, all limits and any amount of data:

| theorem | statement |
|---|---|
| `TypeCorrect` | `Spec => []TypeOK` |
| `OnlyWholeMessages` | `Spec => []WholeMessages` |
| `NoneLeftBehind` | `Spec => []NoMessageWaits` |
| `DropsOnlyTooLongHolds` | `Spec => DropsOnlyTooLong` |
| `OverflowIsFinalHolds` | `Spec => OverflowIsFinal` |

The invariant places the bytes in the stream of the peer. `Disjoint`: messages
do not overlap. `Coming`: what is on its way is the last that was sent.
`Framed`: the buffer starts with a header, has no gap, and what comes follows
it, unless bytes of an older transport were kept or the limit was raised after
a drop. `Deaf`: after a drop the buffer is over the limit and no loop runs,
which is why data that comes after the gap is never joined to the buffer.

### `TransportProofs`

For messages and socket buffers of any positive size and any number of bytes
and chunks:

| theorem | statement |
|---|---|
| `FullExact` | `Spec => []FullMeansBuffered` |
| `AllReceived` | `Spec => []ReceivedAllBeforeDisconnect` |
| `NoLateCallback` | `Spec => NoCallbackAfterEnd` |
| `DeletedOnce` | `Spec => []DestroyedOnce` |
| `Ordered` | `Spec => []BytesInOrder` |

The first three follow from `ConnectionInvariant`, `Spec => [](Inv /\ HeadInv)`, which has
two halves. `SendInv` is about the way of the bytes: `FullInv` says what the two
flags mean between the two writes of `Send_i`, where they are not exact yet,
and `SinkInv` that a proxy with a sink that is not stopped has a stream.
`RecvInv` is about the way of the chunks:

- `WellFormed`: in the user queue the indication comes first and no chunk is
  behind a disconnect;
- `OrderInv`: until the proxy is stopped the chunks in the user queue are
  exactly those that were posted and not yet received, in order (`InOrder`).
  A chunk that was read and is not posted yet is the last one (`Posted`);
- `ConnInv`: no chunk is dropped for want of a sink, since the indication that
  brings the sink is fired before any chunk;
- `EndInv`: once the end is on its way the socket is closed, so that nothing is
  read or sent after it, and everything sent has been read.

`DeletedOnce` rests on `ProxyLife`, `Spec => []LifeInv`. Either the proxy is
`Alive`, with a reference in the stream or in a queue and no deletion begun, or
it is `Dying`: the only event left is its delete event, and exactly one of timer,
event and destructor is under way. The hard part is that nobody brings a dying
proxy back, since the network thread posts events, and with them references, on
its own. `ReachInv` says why not: as long as the proxy can be called (`Callable`)
it is not stopped, or the `Disconnect` event, which carries a reference, is still
queued. `UserInv` covers the user thread in the middle of `SendData`: it has the
stream's reference or that of the event it serves.

`Ordered` rests on `BytesKept`, `Spec => []BytesInv`. There are places where
the bytes produced so far can be cut so that the socket, the buffer of the proxy,
each queued event and the buffer of the stream hold what is between two
neighbouring cuts (`Between`, `Chain`). The cuts are a witness that each action
moves. They take the place of flattening the queue, which would need induction
over it: that the cuts ascend and leave out no byte is part of the invariant.
`QuietInv` adds that an event whose bytes are being written has none any more,
which is why dropping it afterwards drops nothing.

### `NetProofs`

For any sets of connectors, acceptors and descriptors and any amount of unread
data. Handlers of different kinds are different, and descriptors are positive
(`FdsAssumption`, `HandlersAssumption`, `BoundsAssumption`):

| theorem | statement |
|---|---|
| `TypeCorrect` | `Spec => []TypeOK` |
| `Interest` | `Spec => []InterestFollowsMask` |
| `Owners` | `Spec => []HandlersOwnTheirFd` |
| `Descriptors` | `Spec => []DescriptorsOwned` |
| `Indicated` | `Spec => []IndicatedOnce` |
| `Edges` | `Spec => []EdgePending` |
| `Impossible` | `Spec => []AcceptorNeverClosed` |

They are read off one invariant (`Invariant`, `Spec => []NInv`), because a
descriptor is closed and opened again in the middle of every callback and none
of them survives such a step alone:

- `SlotOK`: a descriptor is in one of five states: closed; that of a transport
  that waits for its deletion; or of an open transport, a connector or an
  acceptor, and then the entry of the repository, the owner's own field and the
  socket agree;
- `ConOK`, `AccOK`: the converse, from the owner to the descriptor. A connector
  with a descriptor or a timer is busy, and one that is not done has not been
  answered;
- `WatchOK`: the kqueue watches what the mask says and reports nothing else, so
  that a number opened again starts without the events of its predecessor;
- `EdgeOK`: what a connector or a transport waits for and the socket has is
  active in the kqueue or in the batch.

Every operator on the network's state is shown to be an update of one
descriptor (`At`), and each action to move one descriptor between the five
states. The events of the *batch* are not in the invariant: a batch may name a
descriptor that has a new owner, and the proofs hold for any batch. That is also
why `FalseSuccess` is a fault that the invariant leaves open;
`netthread_success` shows that it happens.

### `ProxyProofs`

For any number of connects, accepted connections and listens:

| theorem | statement |
|---|---|
| `TypeCorrect` | `Spec => []TypeOK` |
| `NeverDangling` | `Spec => []NoDanglingProxy` |
| `Expected` | `Spec => []IndicationsExpected` |
| `Asserted` | `Spec => []AssertionsKept` |

They follow from `ReferencesCounted`, `Spec => []PInv`. Its core is `Held`,
which relates the count of a proxy to the four that may hold a reference, the
stream, a queued `AsycConnect`, a queued `CancelConnect` and a queued indication,
and says which of them exclude each other: a cancel is queued only for a stopped
proxy, whether or not the stream has let go of it yet, and an indication only when
the connector is no longer busy. The delete event is queued exactly while a live proxy has no reference. `Held` needs
the order of the queues (`QueueInv`): each of these events is queued once and a
cancel never before its connect. `ListenInv` says the same of the acceptor:
the network thread has a listener exactly when the user thread believes so or a
stop is on its way. Every assertion and every expectation of the code is a fault
of the model, and `NoFault` is carried along since the other parts are what
exclude it.

### `UdpProofs`

For all non-empty sets of addresses and peers, any set of descriptors and any
numbers of acceptors and transports:

| theorem | statement |
|---|---|
| `TypeCorrect` | `Spec => []TypeOK` |
| `TableIsExact` | `Spec => []TableExact` |
| `SocketIsKept` | `Spec => []SocketKept` |
| `AssertionsHold` | `Spec => []AssertionsKept` |

The inductive invariant joins them with `Linked`: a transport of a listening
acceptor has the number of its descriptor, descriptors in use are real ones,
and no two acceptors listen on one address. The last part is what makes
`StopListen` safe, which erases by address and not by acceptor; it holds since
`bind()` refuses an address in use, which is assumed of the stack:
`CFSSocketUdp::Open` never asks for `SO_REUSEADDR` (`CFSSocket.cpp:144`).
`TableExact` carries the two assertions:
`RemoveTransport` finds an entry because the table has every open transport of
a listening acceptor, and `OnEpollInput` a transport of its own because it has
no other. Of the descriptor that a transport keeps after its acceptor has
stopped, the invariant says only that it is a descriptor and not whose it is;
the fault `SentAfterStop` of `udp_send_after_stop` is left open.

### Model-checked only

Every safety invariant and every action property of a passing run is a theorem.
Liveness stays with TLC, for the instances of section 3, because the proof system
here has no reasoning about fairness:

- `PostedEventsFire`, `SendEventReturns`, `StopClosesReactor` of `reactor`;
- `EarlyEventsFire`, `EarlySendReturns` of `startup`;
- `RefusedIsCalledBack`, `BytesReachSocket`, `AbandonedIsDeleted` of `transport`;
- `ConnectAnswered` of `netthread_live`;
- `TransportNotLost`, `ProxyDeleted` of `proxies_live`.

## 5. Not modelled

- **Base library**: not in the repository.
- **FreeBSD stack**: third party; its sockets and kqueue are the environment.
- **The rest of the port and of the kernel glue, sockets, options**: no state
  or control of their own. `thread_destroy` has no caller. The clock device is
  never started as the repository is built.
- **IP interfaces and the virtual Ethernet driver**: every operation on the map
  of interfaces is one section under `m_ifMutex`. What could go wrong is the use
  of an interface after its destruction, by callers outside the repository for
  which it states no rule.
- **Timer wrapper and timer queue**: a flag in front of the base library.
  Timers fire at any time after they were set.
- **Use of the library on the network thread itself**, without proxies, where
  callbacks re-enter the transport: no program of the repository does so.
- **Undefined behaviour of unlocked containers**: `DestoryPendingEvents` against
  `PostEvent`, the thread map of `ports/src/port_thread.cpp`. Two threads that
  call `Instance` for the first time at once, which is not locked either.
- **Failures** of `Open`, of the notify pipe's socket and of the creation of a
  thread, which the code asserts away, and of `CreateConnectionClient` on the
  network thread (`CFSConnectorThreadProxy.cpp:175`), which fails for want of
  memory only and is asserted not to.
- **The receive timer** of the TCP transport (`m_TimerRereceive`, set by `Recv_i`
  when `FIONREAD` finds more bytes): its `OnTimer` reads once more. Bytes that
  arrive after the read would block raise the read filter anew, and the loop of
  `OnEpollInput` then reads them; a timer in addition only reads earlier.
- **Data**: contents of messages, lengths of datagrams, the remainder of the
  stream's send buffer across connections.
