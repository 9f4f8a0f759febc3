----------------------------- MODULE NetThread -----------------------------
(***************************************************************************)
(* The network thread of the socket library: the handler repository of     *)
(* CFSReactorBase, the kqueue behind CFSReactorEpoll, the dispatch of a    *)
(* batch of epoll events to handlers that register, remove and close       *)
(* descriptors while it runs, and the handlers themselves: TCP connectors  *)
(* under a CFSConnectorWrapper, TCP acceptors and TCP transports.          *)
(*                                                                         *)
(* Requests of other threads arrive as events of the queue, which is run   *)
(* after each batch and also in the middle of one, when the batch contains *)
(* the notify pipe.  A descriptor number is free again as soon as it is    *)
(* closed and the lowest free one is used next.                            *)
(***************************************************************************)
EXTENDS Integers, Sequences, FiniteSets

CONSTANTS Fds,          \* descriptor numbers, a set of positive integers
          Connectors,   \* CFSConnectorWrapper objects, each connects once
          Acceptors,    \* CFSAcceptorTcp objects
          None,         \* no handler
          MaxUnread,    \* bound: chunks or connections waiting in a socket
          MaxListens    \* bound: StartListen calls

ASSUME FdsAssumption == Fds \subseteq Nat \ {0}

\* A handler is a connector, an acceptor or a transport, and never two of them.
ASSUME HandlersAssumption ==
  /\ Connectors \cap Acceptors = {}
  /\ (Connectors \cup Acceptors) \cap Fds = {}
  /\ None \notin Connectors \cup Acceptors \cup Fds

ASSUME BoundsAssumption == MaxUnread \in Nat /\ MaxListens \in Nat

VARIABLES
  net,      \* repository, kqueue and sockets by descriptor, see NetType
  con,      \* the connectors: state, descriptor, timer, indications so far
  acc,      \* descriptor of each acceptor's socket, 0 if it has none
  trp,      \* the CFSTransportTcp that owns a descriptor
  notes,    \* descriptors in the notify pipe's records
  phase,    \* where RunEventLoop is
  batch,    \* epoll events of this turn that are not dispatched yet
  listens,  \* StartListen calls so far
  faults    \* assertions and promises of the code that did not hold

vars == <<net, con, acc, trp, notes, phase, batch, listens, faults>>

Masks == {"READ", "WRITE", "ACCEPT", "CONNECT"}
Filters == {"IN", "OUT"}
Pipe == <<0, "IN">>
States == {"closed", "fresh", "connecting", "connected", "ended", "failed",
           "listening"}

\* A transport is its own handler, known by the descriptor it owns.
Handlers == Connectors \cup Acceptors \cup Fds

NetType ==
  [repo : [Fds -> [eh : Handlers \cup {None}, mask : SUBSET Masks]],
   want : [Fds -> SUBSET Filters], act : [Fds -> SUBSET Filters],
   sk : [Fds -> [st : States, rx : 0..MaxUnread]]]

Cleared == [eh |-> None, mask |-> {}]
Closed == [st |-> "closed", rx |-> 0]

Init ==
  /\ net = [repo |-> [f \in Fds |-> Cleared], want |-> [f \in Fds |-> {}],
            act |-> [f \in Fds |-> {}], sk |-> [f \in Fds |-> Closed]]
  /\ con = [c \in Connectors |->
              [st |-> "new", fd |-> 0, timer |-> "none", told |-> 0]]
  /\ acc = [a \in Acceptors |-> 0]
  /\ trp = [f \in Fds |-> "none"]
  /\ notes = <<>> /\ phase = "timers" /\ batch = {}
  /\ listens = 0 /\ faults = {}

---------------------------------------------------------------------------
(* The kqueue and the sockets.  A filter of a socket is ready as           *)
(* filt_soread and filt_sowrite say; an unconnected socket is not          *)
(* writable.                                                               *)
Ready(s) ==
  (IF s.rx > 0 \/ s.st \in {"ended", "failed"} THEN {"IN"} ELSE {})
    \cup (IF s.st \in {"connected", "ended", "failed"} THEN {"OUT"} ELSE {})

\* Something happened to the socket: wanted filters that are ready fire (the
\* write filter of a connected socket also whenever buffer space is freed).
Change(n, f, s) ==
  [n EXCEPT !.sk[f] = s, !.act[f] = @ \cup (Ready(s) \cap n.want[f])]

CloseFd(n, f) ==
  [n EXCEPT !.sk[f] = Closed, !.want[f] = {}, !.act[f] = {}]

FreeFds == {f \in Fds : net.sk[f].st = "closed"}

\* The descriptor socket() returns.
LowestFree(f) == f \in FreeFds /\ \A g \in FreeFds : f <= g

---------------------------------------------------------------------------
(* CFSReactorBase: the repository. *)

\* CFSReactorEpoll::OnHandleRegister: the filters of a new registration.
Want(mask) ==
  (IF mask \cap {"READ", "ACCEPT"} # {} THEN {"IN"} ELSE {})
    \cup (IF mask \cap {"WRITE", "CONNECT"} # {} THEN {"OUT"} ELSE {})

\* Only a descriptor that has no handler is added to the kqueue.
RegisterHandler(n, f, h, mask) ==
  LET bound == [n EXCEPT !.repo[f] = [eh |-> h, mask |-> mask]] IN
  IF n.repo[f].eh # None THEN bound
  ELSE [bound EXCEPT !.want[f] = Want(mask),
                     !.act[f] = Ready(n.sk[f]) \cap Want(mask)]

\* RemoveHandler, and RemoveHandleWithoutFinding_i without its OnClose.
RemoveHandler(n, f, mask) ==
  LET left == n.repo[f].mask \ mask IN
  IF left = n.repo[f].mask THEN n
  ELSE IF left # {} THEN [n EXCEPT !.repo[f].mask = left]
  ELSE [n EXCEPT !.repo[f] = Cleared, !.want[f] = {}, !.act[f] = {}]

---------------------------------------------------------------------------
(* The callbacks.  Each takes the state n of the network and says what     *)
(* becomes of it.                                                          *)

\* CFSConnectorWrapper::Close_i on a connector that is busy: the connector
\* removes its handler and lets its transport go.
Close_i(n, c) ==
  IF con[c].fd = 0 THEN n ELSE RemoveHandler(n, con[c].fd, {"CONNECT"})

LetGo(c) == IF con[c].fd = 0 THEN trp ELSE [trp EXCEPT ![con[c].fd] = "cut"]

Answered(c) == [con EXCEPT ![c] = [st |-> "done", fd |-> 0, timer |-> "none",
                                   told |-> @.told + 1]]

Really == {"connected", "ended"}

\* Mutant: the sink opens the transport before the connector is closed.
ConnectSucceedsUnclosed(n, c, f) ==
  /\ net' = RegisterHandler(n, f, f, {"READ", "WRITE"})
  /\ trp' = [trp EXCEPT ![f] = "open"]
  /\ con' = Answered(c)
  /\ faults' = IF n.sk[f].st \in Really THEN faults
               ELSE faults \cup {"FalseSuccess"}

\* CFSConnectorTcpT::OnOutput: the wrapper closes the connector and the
\* thread proxy opens the transport on the same descriptor.
ConnectSucceeds(n, c, f) ==
  /\ net' = RegisterHandler(Close_i(n, c), f, f, {"READ", "WRITE"})
  /\ trp' = [trp EXCEPT ![f] = "open"]
  /\ con' = Answered(c)
  /\ faults' = IF n.sk[f].st \in Really THEN faults
               ELSE faults \cup {"FalseSuccess"}

\* CFSConnectorTcpT::OnClose and CFSConnectorWrapper::OnTimeout.
ConnectFails(n, c) ==
  /\ net' = Close_i(n, c)
  /\ trp' = LetGo(c)
  /\ con' = Answered(c)
  /\ UNCHANGED faults

\* CFSTransportBase::OnClose: close the socket and tell the sink, whose
\* Disconnect finds no handler.
TransportOnClose(n, f) ==
  /\ net' = CloseFd(n, f)
  /\ trp' = [trp EXCEPT ![f] = "none"]
  /\ UNCHANGED <<con, faults>>

\* CFSAcceptorTcp::OnClose only writes a trace.
AcceptorOnClose(n) ==
  /\ net' = n
  /\ faults' = faults \cup {"AcceptorClosed"}
  /\ UNCHANGED <<con, trp>>

\* RemoveHandleWithoutFinding_i with SHOULD_CALL: unbind, then OnClose.
RemoveAndClose(f) ==
  LET h == net.repo[f].eh
      n == RemoveHandler(net, f, Masks)
  IN \/ h \in Connectors /\ ConnectFails(n, h)
     \/ h \in Fds /\ TransportOnClose(n, f)
     \/ h \in Acceptors /\ AcceptorOnClose(n)

\* CFSTransportTcp::Open_t, by the thread proxy, of the transports on the
\* descriptors in new: a registration touches nothing but its descriptor.
Open_t(n, new) ==
  LET reg(g) ==
        IF g \in new THEN RegisterHandler(n, g, g, {"READ", "WRITE"}) ELSE n
  IN [repo |-> [g \in Fds |-> reg(g).repo[g]],
      want |-> [g \in Fds |-> reg(g).want[g]],
      act |-> [g \in Fds |-> reg(g).act[g]], sk |-> n.sk]

\* CFSAcceptorTcp::OnEpollInput: accept until the backlog is empty or
\* accept() fails, which it does when no descriptor is free.  The k turns of
\* the loop take the k lowest free descriptors.
AcceptorOnInput(f) ==
  \E new \in SUBSET FreeFds, k \in 0..net.sk[f].rx :
    LET accepted ==
          [g \in Fds |-> IF g \in new THEN [st |-> "connected", rx |-> 0]
                         ELSE IF g = f THEN [net.sk[f] EXCEPT !.rx = @ - k]
                         ELSE net.sk[g]]
    IN /\ k = Cardinality(new)
       /\ k = net.sk[f].rx \/ new = FreeFds
       /\ \A g \in new, h \in FreeFds \ new : g < h
       /\ net' = Open_t([net EXCEPT !.sk = accepted], new)
       /\ trp' = [g \in Fds |-> IF g \in new THEN "open" ELSE trp[g]]
       /\ UNCHANGED <<con, faults>>

\* Mutant: OnEpollInput receives once, as a level-triggered loop would.
TransportOnInputOnce(f) ==
  \/ /\ net.sk[f].st = "connected" \/ net.sk[f].rx > 0
     /\ net' = [net EXCEPT !.sk[f].rx = IF @ = 0 THEN 0 ELSE @ - 1]
     /\ UNCHANGED <<con, trp, faults>>
  \/ /\ net.sk[f].st # "connected" /\ net.sk[f].rx = 0
     /\ RemoveAndClose(f)

\* CFSTransportTcp::OnEpollInput: receive until the socket would block (0)
\* or has ended, failed or is not connected (-1).
TransportOnInput(f) ==
  \/ /\ net.sk[f].st = "connected"
     /\ net' = [net EXCEPT !.sk[f].rx = 0]
     /\ UNCHANGED <<con, trp, faults>>
  \/ /\ net.sk[f].st # "connected"
     /\ RemoveAndClose(f)

---------------------------------------------------------------------------
(* The loop: CFSReactorEpoll::RunEventLoop. *)

\* Mutant: asks whether the socket has a peer.
IsConnectedToPeer(f) == net.sk[f].st \in Really

\* CFSReactorEpoll::IsConnected: SO_ERROR can be read and is 0.
IsConnected(f) == net.sk[f].st \notin {"closed", "failed"}

Signalled(filter) ==
  IF filter = "IN" THEN {"READ", "ACCEPT", "CONNECT"} ELSE {"WRITE", "CONNECT"}

\* CFSReactorBase::ProcessHandleEvent for an epoll event of f.  A connector
\* has no OnInput of its own and an acceptor is never writable.
ProcessHandleEvent(f, filter) ==
  LET h == net.repo[f].eh
      actual == net.repo[f].mask \cap Signalled(filter)
      close == filter = "OUT" /\ ~IsConnected(f)
  IN \/ /\ h = None \/ (~close /\ actual = {})
        /\ UNCHANGED <<net, con, trp, faults>>
     \/ h # None /\ close /\ RemoveAndClose(f)
     \/ /\ ~close /\ "CONNECT" \in actual
        /\ ConnectSucceeds(net, h, f)
     \/ /\ ~close /\ "ACCEPT" \in actual
        /\ AcceptorOnInput(f)
     \/ /\ ~close /\ "READ" \in actual
        /\ TransportOnInput(f)
     \/ /\ ~close /\ "WRITE" \in actual  \* OnOutput: see TransportProxy
        /\ UNCHANGED <<net, con, trp, faults>>

DispatchHandler ==
  /\ phase = "batch"
  /\ \E e \in batch \ {Pipe} :
       /\ batch' = batch \ {e}
       /\ ProcessHandleEvent(e[1], e[2])
  /\ UNCHANGED <<acc, notes, phase, listens>>

\* CFSReactorNotifyPipe::OnInput reads a record that names a descriptor and
\* signals WRITE_MASK to it.  A connector registered CONNECT_MASK alone, so
\* that nothing is called; on a transport OnOutput is.
DispatchNote ==
  /\ phase = "batch" /\ Pipe \in batch /\ notes # <<>>
  /\ batch' = batch \ {Pipe}
  /\ notes' = Tail(notes)
  /\ UNCHANGED <<net, con, acc, trp, phase, listens, faults>>

\* The pipe's record asks for the event queue: run it, then go on with the
\* batch.  The queue is run once more when the batch is done.
DispatchQueue ==
  /\ phase = "batch"
  /\ \/ Pipe \in batch /\ batch' = batch \ {Pipe}
     \/ batch = {} /\ UNCHANGED batch
  /\ phase' = IF batch = {} THEN "queue" ELSE "midqueue"
  /\ UNCHANGED <<net, con, acc, trp, notes, listens, faults>>

\* ProcessPendingEvents returns.
QueueDone ==
  /\ phase \in {"queue", "midqueue"}
  /\ phase' = IF phase = "queue" THEN "timers" ELSE "batch"
  /\ UNCHANGED <<net, con, acc, trp, notes, batch, listens, faults>>

\* vos_epoll_wait after CheckExpire ran all timers that are due, the zero
\* timers among them; EV_CLEAR resets what it returns.  The pipe is among
\* the events when a request was posted (module Reactor).
EpollWait ==
  /\ phase = "timers"
  /\ \A c \in Connectors : con[c].timer # "error"
  /\ \E pipe \in {{}, {Pipe}} :
       batch' = pipe \cup UNION {{f} \X net.act[f] : f \in Fds}
  /\ net' = [net EXCEPT !.act = [f \in Fds |-> {}]]
  /\ phase' = "batch"
  /\ UNCHANGED <<con, acc, trp, notes, listens, faults>>

\* Mutant: the sink is told and the wrapper is left open.
OnTimeoutUnclosed(c) ==
  /\ phase = "timers" /\ con[c].timer # "none"
  /\ con' = [con EXCEPT ![c].told = @ + 1, ![c].timer = "none"]
  /\ UNCHANGED <<net, acc, trp, notes, phase, batch, listens, faults>>

\* CFSConnectorWrapper::OnTimeout.
OnTimeout(c) ==
  /\ phase = "timers" /\ con[c].timer # "none"
  /\ ConnectFails(net, c)
  /\ UNCHANGED <<acc, notes, phase, batch, listens>>

\* The zero timer deletes a transport nobody refers to; its destructor
\* closes the socket.
DeleteTransport(f) ==
  /\ phase = "timers" /\ trp[f] = "cut"
  /\ net' = CloseFd(net, f)
  /\ trp' = [trp EXCEPT ![f] = "none"]
  /\ UNCHANGED <<con, acc, notes, phase, batch, listens, faults>>

---------------------------------------------------------------------------
(* Requests of other threads, run as events of the queue. *)
InQueue == phase \in {"queue", "midqueue"}

\* CFSConnectorTcpT::Connect_i on descriptor f: register, then connect().
Connect_i(c, f, result) ==
  LET opened == [net EXCEPT !.sk[f].st = "fresh"]
      registered == RegisterHandler(opened, f, c, {"CONNECT"})
  IN Change(registered, f, [st |-> result, rx |-> 0])

\* Mutant: no timer is scheduled when connecting fails at once.
AsycConnectUntimed(c) ==
  /\ InQueue /\ con[c].st = "new"
  /\ \/ /\ con' = [con EXCEPT ![c].st = "busy"]
        /\ UNCHANGED <<net, trp, notes>>
     \/ \E result \in {"connecting", "connected"}, timer \in {"none", "timeout"},
           f \in Fds :
          /\ LowestFree(f)
          /\ net' = Connect_i(c, f, result)
          /\ trp' = [trp EXCEPT ![f] = "held"]
          /\ con' = [con EXCEPT ![c].st = "busy", ![c].fd = f,
                                ![c].timer = timer]
          /\ notes' = IF result = "connected" THEN Append(notes, f) ELSE notes
  /\ UNCHANGED <<acc, phase, batch, listens, faults>>

\* CFSConnectorWrapper::AsycConnect: the socket cannot be opened, or not be
\* made non-blocking and registered, or connect() fails at once, is in
\* progress or succeeds at once.  A socket that is not registered waits for
\* the timer to let its transport go; since nothing reaches it until then,
\* the transport counts as cut already.
AsycConnect(c) ==
  /\ InQueue /\ con[c].st = "new"
  /\ \/ /\ con' = [con EXCEPT ![c].st = "busy", ![c].timer = "error"]
        /\ UNCHANGED <<net, trp, notes>>
     \/ \E f \in Fds :
          /\ LowestFree(f)
          /\ net' = [net EXCEPT !.sk[f].st = "fresh"]
          /\ trp' = [trp EXCEPT ![f] = "cut"]
          /\ con' = [con EXCEPT ![c].st = "busy", ![c].timer = "error"]
          /\ UNCHANGED notes
     \/ \E result \in {"fresh", "connecting", "connected"},
           timer \in {"none", "timeout", "error"}, f \in Fds :
          /\ LowestFree(f)
          /\ (result = "fresh") <=> (timer = "error")
          /\ net' = Connect_i(c, f, result)
          /\ trp' = [trp EXCEPT ![f] = "held"]
          /\ con' = [con EXCEPT ![c].st = "busy", ![c].fd = f,
                                ![c].timer = timer]
          /\ notes' = IF result = "connected" THEN Append(notes, f) ELSE notes
  /\ UNCHANGED <<acc, phase, batch, listens, faults>>

\* Mutant: the connector keeps its transport.
CancelConnectHolding(c) ==
  /\ InQueue /\ con[c].st = "busy"
  /\ net' = Close_i(net, c)
  /\ con' = [con EXCEPT ![c].st = "done", ![c].fd = 0, ![c].timer = "none"]
  /\ UNCHANGED <<acc, trp, notes, phase, batch, listens, faults>>

\* CFSConnectorWrapper::CancelConnect; Close_i does nothing when the
\* wrapper is closed already.
CancelConnect(c) ==
  /\ InQueue /\ con[c].st = "busy"
  /\ net' = Close_i(net, c)
  /\ trp' = LetGo(c)
  /\ con' = [con EXCEPT ![c].st = "done", ![c].fd = 0, ![c].timer = "none"]
  /\ UNCHANGED <<acc, notes, phase, batch, listens, faults>>

\* CFSAcceptorTcp::StartListen; a failure closes the socket it opened.
StartListen(a) ==
  /\ InQueue /\ acc[a] = 0 /\ listens < MaxListens
  /\ \E f \in Fds :
       LET opened == [net EXCEPT !.sk[f].st = "listening"] IN
       /\ LowestFree(f)
       /\ net' = RegisterHandler(opened, f, a, {"ACCEPT"})
       /\ acc' = [acc EXCEPT ![a] = f]
  /\ listens' = listens + 1
  /\ UNCHANGED <<con, trp, notes, phase, batch, faults>>

\* Mutant: the socket is closed and its handler is left registered.
StopListenRegistered(a) ==
  /\ InQueue /\ acc[a] # 0
  /\ net' = CloseFd(net, acc[a])
  /\ acc' = [acc EXCEPT ![a] = 0]
  /\ UNCHANGED <<con, trp, notes, phase, batch, listens, faults>>

\* CFSAcceptorTcp::StopListen.
StopListen(a) ==
  /\ InQueue /\ acc[a] # 0
  /\ net' = CloseFd(RemoveHandler(net, acc[a], {"ACCEPT"}), acc[a])
  /\ acc' = [acc EXCEPT ![a] = 0]
  /\ UNCHANGED <<con, trp, notes, phase, batch, listens, faults>>

\* CFSTransportBase::Disconnect: the socket stays open until the transport
\* is deleted.
Disconnect(f) ==
  /\ InQueue /\ trp[f] = "open"
  /\ net' = RemoveHandler(net, f, {"READ", "WRITE"})
  /\ trp' = [trp EXCEPT ![f] = "cut"]
  /\ UNCHANGED <<con, acc, notes, phase, batch, listens, faults>>

---------------------------------------------------------------------------
(* The TCP stack and the peers. *)
SocketIs(f, st, s) ==
  /\ net.sk[f].st = st
  /\ net' = Change(net, f, s)
  /\ UNCHANGED <<con, acc, trp, notes, phase, batch, listens, faults>>

Handshake(f) ==
  \E st \in {"connected", "failed"} :
    SocketIs(f, "connecting", [st |-> st, rx |-> 0])
PeerSends(f) ==
  /\ net.sk[f].rx < MaxUnread
  /\ \E st \in {"connected", "listening"} :
       SocketIs(f, st, [net.sk[f] EXCEPT !.rx = @ + 1])
PeerEnds(f) ==
  \E st \in {"ended", "failed"} :
    SocketIs(f, "connected", [net.sk[f] EXCEPT !.st = st])

Loop ==
  \/ DispatchHandler \/ DispatchNote \/ DispatchQueue \/ QueueDone \/ EpollWait
  \/ \E c \in Connectors : con[c].timer = "error" /\ OnTimeout(c)

Request ==
  \/ \E c \in Connectors : AsycConnect(c) \/ CancelConnect(c)
  \/ \E a \in Acceptors : StartListen(a) \/ StopListen(a)
  \/ \E f \in Fds : Disconnect(f)

Stack == \E f \in Fds : Handshake(f) \/ PeerSends(f) \/ PeerEnds(f)

Next ==
  \/ Loop
  \/ \E c \in Connectors : OnTimeout(c)
  \/ \E f \in Fds : DeleteTransport(f)
  \/ Request
  \/ Stack

Spec == Init /\ [][Next]_vars

\* The stack gives up on a handshake in the end, and the loop runs: every
\* phase of it ends, so that no part of it needs fairness of its own.
FairSpec == Spec /\ WF_vars(Loop) /\ \A f \in Fds : WF_vars(Handshake(f))

---------------------------------------------------------------------------
\* Every variable has its type.
TypeOK ==
  /\ net \in NetType
  /\ con \in [Connectors -> [st : {"new", "busy", "done"}, fd : Fds \cup {0},
                             timer : {"none", "timeout", "error"}, told : 0..1]]
  /\ acc \in [Acceptors -> Fds \cup {0}]
  /\ trp \in [Fds -> {"none", "held", "open", "cut"}]
  /\ notes \in Seq(Fds)
  /\ phase \in {"timers", "batch", "queue", "midqueue"}
  /\ batch \subseteq (Fds \X Filters) \cup {Pipe}
  /\ listens \in 0..MaxListens
  /\ faults \subseteq {"FalseSuccess", "AcceptorClosed"}

(* The kqueue watches exactly what the repository says: a descriptor       *)
(* without handler has no filter, one with a handler has the filters of    *)
(* its mask.  RegisterHandler does not touch the kqueue when it rebinds a  *)
(* descriptor, so this rests on the order in which the connector, the      *)
(* wrapper and the transport register and remove.                          *)
InterestFollowsMask ==
  \A f \in Fds : net.want[f] = Want(net.repo[f].mask)

(* A registered handler is alive and owns the descriptor it is registered  *)
(* for: no event can reach a closed acceptor, an answered or cancelled     *)
(* connector or a deleted transport, whatever is closed, opened and reused *)
(* within one batch.                                                       *)
HandlersOwnTheirFd ==
  \A f \in Fds :
    LET h == net.repo[f].eh IN
    /\ h \in Connectors => con[h].st = "busy" /\ con[h].fd = f /\ trp[f] = "held"
    /\ h \in Acceptors => acc[h] = f /\ net.sk[f].st = "listening"
    /\ h \in Fds => h = f /\ trp[f] = "open" /\ net.sk[f].st # "closed"

(* No descriptor is leaked and none is shared: an open socket has exactly  *)
(* one owner, a transport that is deleted in the end or a listening        *)
(* acceptor, and a transport that is not yet cut can still be reached, by  *)
(* its connector or as a handler of the reactor.                           *)
DescriptorsOwned ==
  \A f \in Fds :
    LET listening == {a \in Acceptors : acc[a] = f} IN
    /\ net.sk[f].st = "closed" <=> trp[f] = "none" /\ listening = {}
    /\ listening # {} => trp[f] = "none"
    /\ \A a, b \in listening : a = b
    /\ trp[f] = "held" => \E c \in Connectors : con[c].st = "busy" /\ con[c].fd = f
    /\ trp[f] = "open" => net.repo[f].eh = f

(* CFSConnectorWrapper indicates a connect at most once: OnOutput, OnClose *)
(* and the timers race, and whoever comes first closes the wrapper before  *)
(* it calls the sink.                                                      *)
IndicatedOnce ==
  \A c \in Connectors :
    con[c].told <= 1 /\ (con[c].st # "done" => con[c].told = 0)

(* No edge is lost: a connector whose handshake is over and a transport    *)
(* with unread data or a closed peer have their event in the kqueue or in  *)
(* the batch.  Filters are edge-triggered, so a callback that leaves       *)
(* something behind is not called for it again.                            *)
EdgePending ==
  \A f \in Fds :
    LET h == net.repo[f].eh
        pending == net.act[f] \cup {e[2] : e \in {x \in batch : x[1] = f}}
    IN /\ h \in Connectors => Ready(net.sk[f]) \cap {"OUT"} \subseteq pending
       /\ h \in Fds => Ready(net.sk[f]) \cap {"IN"} \subseteq pending

(* CFSAcceptorTcp::OnClose traces "it's impossible!".  It is: also an      *)
(* event left over from the previous owner of the acceptor's descriptor    *)
(* never carries CLOSE_MASK for a listening socket.                        *)
AcceptorNeverClosed == "AcceptorClosed" \notin faults

(* "OnOutput() indicating Connect successful": the success indication of a *)
(* connector is about a connected socket.                                  *)
SuccessIsReal == "FalseSuccess" \notin faults

(* Every AsycConnect is answered or cancelled, on every path: open or      *)
(* connect() failing at once, the handshake ending either way, a timeout.  *)
ConnectAnswered ==
  \A c \in Connectors : (con[c].st = "busy") ~> (con[c].st = "done")
=============================================================================
