--------------------------- MODULE ConnectProxies ---------------------------
(***************************************************************************)
(* Connecting and listening from a user thread.  A CFSStreamBase creates a *)
(* CFSConnectorThreadProxy for every Connect, and a server drives one      *)
(* CFSAcceptorThreadProxy.  The proxies post to the network thread, where  *)
(* the actual connectors and acceptor live, and indications come back      *)
(* through the user thread's queue.  Either side may change its mind while *)
(* the other side's event is on its way.                                   *)
(*                                                                         *)
(* An event holds a reference to its proxy.  A proxy that loses its last   *)
(* reference on the user thread is deleted by an event of the network      *)
(* thread.  A transport is known by a number: connector p yields p.        *)
(***************************************************************************)
EXTENDS Integers, Sequences, FiniteSets

CONSTANTS MaxConnects,  \* bound: Connect calls, one proxy for each
          MaxAccepts,   \* bound: connections accepted
          MaxListens    \* bound: StartListen calls

ASSUME BoundsAssumption ==
  MaxConnects \in Nat /\ MaxAccepts \in Nat /\ MaxListens \in Nat

Proxies == 1..MaxConnects
Accepted == (MaxConnects + 1)..(MaxConnects + MaxAccepts)
Transports == Proxies \cup Accepted

VARIABLES
  prox,     \* CFSConnectorThreadProxy: stop flag, references, m_pConActual
  stream,   \* m_pConnector and m_pTransport of the stream, 0 for NULL
  acc,      \* CFSAcceptorThreadProxy: stop flag, m_pSinkActual,
            \*   m_pAcceptorActual
  trs,      \* life of each transport and its thread proxy
  ended,    \* transports whose peer has closed
  nq, uq,   \* event queues of the network thread and the user thread
  listens,  \* StartListen calls so far
  waiting,  \* the user thread is in SendEvent; its result
  call,     \* the call of the stream that has cancelled its connector
  faults    \* assertions of the code that failed

vars == <<prox, stream, acc, trs, ended, nq, uq, listens, waiting, call, faults>>

Ev(type, id) == [type |-> type, id |-> id]

Init ==
  /\ prox = [p \in Proxies |-> [life |-> "new", stopped |-> TRUE, refs |-> 0,
                                actual |-> "none"]]
  /\ stream = [con |-> 0, trp |-> 0]
  /\ acc = [stopped |-> TRUE, sink |-> FALSE, actual |-> FALSE]
  /\ trs = [t \in Transports |-> "none"]
  /\ ended = {} /\ nq = <<>> /\ uq = <<>>
  /\ listens = 0 /\ waiting = "no" /\ call = "none" /\ faults = {}

UserRuns == waiting = "no" /\ call = "none"

\* OnReferenceDestory asserts that the proxy was stopped before.
DestroyFaults(p) == IF prox[p].stopped THEN {} ELSE {"Destroyed"}

---------------------------------------------------------------------------
(* The user thread: CFSStreamBase. *)

Fresh == {p \in Proxies : prox[p].life = "new"}

\* Connect and Close first call CancelConnect of a connector that is not
\* stopped, and its event refers to the proxy.  The network thread may take
\* the event before the call goes on; a stream that waits for a connector
\* has no transport that Close would disconnect first.
CancelConnect(next) ==
  LET p == stream.con IN
  /\ UserRuns /\ p # 0 /\ ~prox[p].stopped
  /\ next = "Connect" => Fresh # {}
  /\ prox' = [prox EXCEPT ![p].stopped = TRUE, ![p].refs = @ + 1]
  /\ nq' = Append(nq, Ev("CancelConnect", p))
  /\ call' = next
  /\ UNCHANGED <<stream, acc, trs, ended, uq, listens, waiting, faults>>

\* The call has nothing to cancel, or has done so.
Cancelled(name) ==
  /\ waiting = "no" /\ call \in {"none", name}
  /\ stream.con # 0 => prox[stream.con].stopped

\* m_pConnector = NULL, perhaps the last reference.
LetConnectorGo ==
  LET p == stream.con IN
  IF p = 0 THEN [px |-> prox, evs |-> <<>>, faults |-> {}]
  ELSE [px |-> [prox EXCEPT ![p].refs = @ - 1],
        evs |-> IF prox[p].refs = 1 THEN <<Ev("Delete", p)>> ELSE <<>>,
        faults |-> IF prox[p].refs = 1 THEN DestroyFaults(p) ELSE {}]

\* Disconnect of the transport's thread proxy, then m_pTransport = NULL.
LetTransportGo ==
  IF stream.trp = 0 THEN <<>> ELSE <<Ev("Disconnect", stream.trp)>>

\* CFSStreamBase::Connect: AsycConnect of a new proxy, which the stream and
\* the event refer to.
Connect ==
  LET p == CHOOSE x \in Fresh : TRUE
  IN /\ Cancelled("Connect") /\ Fresh # {}
     /\ prox' = [LetConnectorGo.px EXCEPT ![p] =
                   [life |-> "alive", stopped |-> FALSE, refs |-> 2,
                    actual |-> "none"]]
     /\ nq' = nq \o LetConnectorGo.evs \o LetTransportGo
                 \o <<Ev("AsycConnect", p)>>
     /\ trs' = [t \in Transports |->
                  IF t = stream.trp THEN "leaving" ELSE trs[t]]
     /\ stream' = [con |-> p, trp |-> 0]
     /\ faults' = faults \cup LetConnectorGo.faults
     /\ call' = "none"
     /\ UNCHANGED <<acc, ended, uq, listens, waiting>>

\* CFSStreamBase::Close.
Close ==
  /\ Cancelled("Close") /\ stream # [con |-> 0, trp |-> 0]
  /\ prox' = LetConnectorGo.px
  /\ nq' = nq \o LetTransportGo \o LetConnectorGo.evs
  /\ trs' = [t \in Transports |-> IF t = stream.trp THEN "leaving" ELSE trs[t]]
  /\ stream' = [con |-> 0, trp |-> 0]
  /\ faults' = faults \cup LetConnectorGo.faults
  /\ call' = "none"
  /\ UNCHANGED <<acc, ended, uq, listens, waiting>>

---------------------------------------------------------------------------
(* The user thread: events of its queue. *)
Firing(type) == UserRuns /\ uq # <<>> /\ Head(uq).type = type

\* The event is destroyed and its reference with it.
ReleaseOnUser(p, px) == [px EXCEPT ![p].refs = @ - 1]
DeleteEvent(p) == IF prox[p].refs = 1 THEN <<Ev("Delete", p)>> ELSE <<>>

\* Mutant: the stop flag is not looked at.
FireOnConnectIndicationAnyway ==
  /\ uq # <<>> /\ Head(uq).type \in {"Connected", "Failed"} /\ UserRuns
  /\ LET p == Head(uq).id
         ok == Head(uq).type = "Connected"
     IN /\ prox' = ReleaseOnUser(p, [prox EXCEPT ![p].stopped = TRUE])
        /\ nq' = nq \o DeleteEvent(p)
        /\ trs' = IF ok THEN [trs EXCEPT ![p] = "held"] ELSE trs
        /\ stream' = IF ok THEN [stream EXCEPT !.trp = p] ELSE stream
        /\ faults' = faults \cup
             (IF stream = [con |-> p, trp |-> 0] THEN {} ELSE {"Indicated"})
  /\ uq' = Tail(uq)
  /\ UNCHANGED <<acc, ended, listens, waiting, call>>

\* Mutant: a transport that comes too late is dropped.
FireOnConnectIndicationDropping ==
  /\ uq # <<>> /\ Head(uq).type \in {"Connected", "Failed"} /\ UserRuns
  /\ LET p == Head(uq).id
         ok == Head(uq).type = "Connected"
     IN /\ nq' = nq \o DeleteEvent(p)
        /\ \/ /\ prox[p].stopped
              /\ prox' = ReleaseOnUser(p, prox)
              /\ UNCHANGED <<stream, faults, trs>>
           \/ /\ ~prox[p].stopped
              /\ prox' = ReleaseOnUser(p, [prox EXCEPT ![p].stopped = TRUE])
              /\ trs' = IF ok THEN [trs EXCEPT ![p] = "held"] ELSE trs
              /\ stream' = IF ok THEN [stream EXCEPT !.trp = p] ELSE stream
              /\ UNCHANGED faults
  /\ uq' = Tail(uq)
  /\ UNCHANGED <<acc, ended, listens, waiting, call>>

\* CFSEventOnConnectIndication of a connector.  CFSStreamBase asserts that
\* the indication is of its connector and that it has no transport.
FireOnConnectIndication ==
  /\ uq # <<>> /\ Head(uq).type \in {"Connected", "Failed"} /\ UserRuns
  /\ LET p == Head(uq).id
         ok == Head(uq).type = "Connected"
     IN \/ /\ prox[p].stopped
           /\ prox' = ReleaseOnUser(p, prox)
           /\ nq' = nq \o (IF ok THEN <<Ev("Disconnect", p)>> ELSE <<>>)
                       \o DeleteEvent(p)
           /\ trs' = IF ok THEN [trs EXCEPT ![p] = "leaving"] ELSE trs
           /\ UNCHANGED <<stream, faults>>
        \/ /\ ~prox[p].stopped
           /\ prox' = ReleaseOnUser(p, [prox EXCEPT ![p].stopped = TRUE])
           /\ nq' = nq \o DeleteEvent(p)
           /\ trs' = IF ok THEN [trs EXCEPT ![p] = "held"] ELSE trs
           /\ stream' = IF ok THEN [stream EXCEPT !.trp = p] ELSE stream
           /\ faults' = faults \cup
                (IF stream = [con |-> p, trp |-> 0] THEN {} ELSE {"Indicated"})
  /\ uq' = Tail(uq)
  /\ UNCHANGED <<acc, ended, listens, waiting, call>>

\* CFSEventOnDisconnect: ignored after Disconnect.
FireOnDisconnect ==
  /\ Firing("OnDisconnect")
  /\ LET t == Head(uq).id IN
     /\ trs' = IF trs[t] = "held" THEN [trs EXCEPT ![t] = "closed"] ELSE trs
     /\ stream' = IF stream.trp = t THEN [stream EXCEPT !.trp = 0] ELSE stream
  /\ uq' = Tail(uq)
  /\ UNCHANGED <<prox, acc, ended, nq, listens, waiting, call, faults>>

\* CFSEventOnConnectIndication of the acceptor.
FireOnAccepted ==
  /\ Firing("Accepted")
  /\ LET t == Head(uq).id IN
     \/ /\ acc.stopped
        /\ trs' = [trs EXCEPT ![t] = "leaving"]
        /\ nq' = Append(nq, Ev("Disconnect", t))
        /\ UNCHANGED faults
     \/ /\ ~acc.stopped
        /\ trs' = [trs EXCEPT ![t] = "held"]
        /\ faults' = IF acc.sink THEN faults ELSE faults \cup {"Indicated"}
        /\ UNCHANGED nq
  /\ uq' = Tail(uq)
  /\ UNCHANGED <<prox, stream, acc, ended, listens, waiting, call>>

---------------------------------------------------------------------------
(* The user thread: CFSAcceptorThreadProxy. *)

\* StartListen sends the event and waits for its result.
StartListen ==
  /\ UserRuns /\ acc.stopped /\ listens < MaxListens
  /\ acc' = [acc EXCEPT !.sink = TRUE]
  /\ nq' = Append(nq, Ev("StartListen", 0))
  /\ listens' = listens + 1
  /\ waiting' = "yes"
  /\ UNCHANGED <<prox, stream, trs, ended, uq, call, faults>>

StartListenReturns ==
  /\ waiting \in {"ok", "failed"}
  /\ acc' = IF waiting = "ok" THEN [acc EXCEPT !.stopped = FALSE]
                              ELSE [acc EXCEPT !.sink = FALSE]
  /\ waiting' = "no"
  /\ UNCHANGED <<prox, stream, trs, ended, nq, uq, listens, call, faults>>

\* StopListen posts and does not wait.
StopListen ==
  /\ UserRuns /\ ~acc.stopped
  /\ acc' = [acc EXCEPT !.stopped = TRUE, !.sink = FALSE]
  /\ nq' = Append(nq, Ev("StopListen", 0))
  /\ UNCHANGED <<prox, stream, trs, ended, uq, listens, waiting, call, faults>>

\* The server is done with a connection it accepted.
DisconnectAccepted(t) ==
  /\ UserRuns /\ trs[t] = "held"
  /\ trs' = [trs EXCEPT ![t] = "leaving"]
  /\ nq' = Append(nq, Ev("Disconnect", t))
  /\ UNCHANGED <<prox, stream, acc, ended, uq, listens, waiting, call, faults>>

---------------------------------------------------------------------------
(* The network thread. *)
NetFires(type) == nq # <<>> /\ Head(nq).type = type

\* The event is destroyed; the last reference deletes the proxy at once, and
\* m_pConActual with it.
ReleaseOnNet(p, px) ==
  [px EXCEPT ![p].refs = @ - 1,
             ![p].life = IF px[p].refs = 1 THEN "dead" ELSE @,
             ![p].actual = IF px[p].refs = 1 THEN "none" ELSE @]

FireAsycConnect ==
  /\ NetFires("AsycConnect")
  /\ LET p == Head(nq).id
     IN prox' = ReleaseOnNet(p, [prox EXCEPT ![p].actual = "busy"])
  /\ nq' = Tail(nq)
  /\ UNCHANGED <<stream, acc, trs, ended, uq, listens, waiting, call, faults>>

FireCancelConnect ==
  /\ NetFires("CancelConnect")
  /\ LET p == Head(nq).id IN
     /\ prox' = ReleaseOnNet(p, [prox EXCEPT ![p].actual = "none"])
     /\ faults' = faults
          \cup (IF prox[p].actual = "none" THEN {"NoActual"} ELSE {})
          \cup (IF prox[p].refs = 1 THEN DestroyFaults(p) ELSE {})
  /\ nq' = Tail(nq)
  /\ UNCHANGED <<stream, acc, trs, ended, uq, listens, waiting, call>>

FireDelete ==
  /\ NetFires("Delete")
  /\ prox' = [prox EXCEPT ![Head(nq).id].life = "dead",
                          ![Head(nq).id].actual = "none"]
  /\ nq' = Tail(nq)
  /\ UNCHANGED <<stream, acc, trs, ended, uq, listens, waiting, call, faults>>

FireDisconnect ==
  /\ NetFires("Disconnect")
  /\ trs' = [trs EXCEPT ![Head(nq).id] = "closed"]
  /\ nq' = Tail(nq)
  /\ UNCHANGED <<prox, stream, acc, ended, uq, listens, waiting, call, faults>>

FireStartListen ==
  /\ NetFires("StartListen")
  /\ \E result \in {"ok", "failed"} :
       /\ waiting' = result
       /\ acc' = [acc EXCEPT !.actual = (result = "ok")]
  /\ faults' = IF acc.actual THEN faults \cup {"TwoActual"} ELSE faults
  /\ nq' = Tail(nq)
  /\ UNCHANGED <<prox, stream, trs, ended, uq, listens, call>>

\* Mutant: m_pAcceptorActual is kept.
FireStopListenKeeping ==
  /\ NetFires("StopListen")
  /\ faults' = IF acc.actual THEN faults ELSE faults \cup {"NoActual"}
  /\ nq' = Tail(nq)
  /\ UNCHANGED <<prox, stream, acc, trs, ended, uq, listens, waiting, call>>

FireStopListen ==
  /\ NetFires("StopListen")
  /\ acc' = [acc EXCEPT !.actual = FALSE]
  /\ faults' = IF acc.actual THEN faults ELSE faults \cup {"NoActual"}
  /\ nq' = Tail(nq)
  /\ UNCHANGED <<prox, stream, trs, ended, uq, listens, waiting, call>>

\* Mutant: the event refers to the proxy without a reference.
OnConnectIndicationBorrowing(p) ==
  /\ prox[p].actual = "busy"
  /\ prox' = [prox EXCEPT ![p].actual = "idle"]
  /\ \E type \in {"Connected", "Failed"} :
       /\ uq' = Append(uq, Ev(type, p))
       /\ trs' = IF type = "Connected" THEN [trs EXCEPT ![p] = "posted"] ELSE trs
  /\ UNCHANGED <<stream, acc, ended, nq, listens, waiting, call, faults>>

\* Mutant: the reference of the event is never given back.
OnConnectIndicationLeaking(p) ==
  /\ prox[p].actual = "busy"
  /\ prox' = [prox EXCEPT ![p].actual = "idle", ![p].refs = @ + 2]
  /\ \E type \in {"Connected", "Failed"} :
       /\ uq' = Append(uq, Ev(type, p))
       /\ trs' = IF type = "Connected" THEN [trs EXCEPT ![p] = "posted"] ELSE trs
  /\ UNCHANGED <<stream, acc, ended, nq, listens, waiting, call, faults>>

\* The actual connector ends (module NetThread) and the sink proxy posts:
\* CFSAcceptorConnectorSinkThreadProxyT::OnConnectIndication.
OnConnectIndication(p) ==
  /\ prox[p].actual = "busy"
  /\ prox' = [prox EXCEPT ![p].actual = "idle", ![p].refs = @ + 1]
  /\ \E type \in {"Connected", "Failed"} :
       /\ uq' = Append(uq, Ev(type, p))
       /\ trs' = IF type = "Connected" THEN [trs EXCEPT ![p] = "posted"] ELSE trs
  /\ UNCHANGED <<stream, acc, ended, nq, listens, waiting, call, faults>>

\* The same for the acceptor.
OnAcceptIndication(t) ==
  /\ acc.actual /\ trs[t] = "none"
  /\ uq' = Append(uq, Ev("Accepted", t))
  /\ trs' = [trs EXCEPT ![t] = "posted"]
  /\ UNCHANGED <<prox, stream, acc, ended, nq, listens, waiting, call, faults>>

\* The peer closes: the transport's thread proxy posts OnDisconnect.
OnDisconnect(t) ==
  /\ trs[t] \in {"posted", "held"} /\ t \notin ended
  /\ ended' = ended \cup {t}
  /\ uq' = Append(uq, Ev("OnDisconnect", t))
  /\ UNCHANGED <<prox, stream, acc, trs, nq, listens, waiting, call, faults>>

UserEvents == FireOnConnectIndication \/ FireOnDisconnect \/ FireOnAccepted
NetEvents == \/ FireAsycConnect \/ FireCancelConnect \/ FireDelete
             \/ FireDisconnect \/ FireStartListen \/ FireStopListen

Next ==
  \/ \E next \in {"Connect", "Close"} : CancelConnect(next)
  \/ Connect \/ Close \/ StartListen \/ StartListenReturns \/ StopListen
  \/ \E t \in Accepted : DisconnectAccepted(t)
  \/ UserEvents \/ NetEvents
  \/ \E p \in Proxies : OnConnectIndication(p)
  \/ \E t \in Accepted : OnAcceptIndication(t)
  \/ \E t \in Transports : OnDisconnect(t)

Spec == Init /\ [][Next]_vars

\* Both threads run their queues, SendEvent returns (module Reactor) and a
\* call that has begun goes on.  Nobody has to connect, to answer or to close.
FairSpec ==
  /\ Spec
  /\ WF_vars(UserEvents) /\ WF_vars(NetEvents) /\ WF_vars(StartListenReturns)
  /\ WF_vars(call # "none" /\ (Connect \/ Close))

---------------------------------------------------------------------------
(* Every variable has its type. *)
TypeOK ==
  /\ prox \in [Proxies -> [life : {"new", "alive", "dead"}, stopped : BOOLEAN,
                           refs : 0..4, actual : {"none", "busy", "idle"}]]
  /\ stream \in [con : Proxies \cup {0}, trp : Proxies \cup {0}]
  /\ acc \in [stopped : BOOLEAN, sink : BOOLEAN, actual : BOOLEAN]
  /\ trs \in [Transports -> {"none", "posted", "held", "leaving", "closed"}]
  /\ ended \subseteq Transports
  /\ nq \in Seq([type : {"AsycConnect", "CancelConnect", "Delete", "Disconnect",
                         "StartListen", "StopListen"}, id : Transports \cup {0}])
  /\ uq \in Seq([type : {"Connected", "Failed", "Accepted", "OnDisconnect"},
                 id : Transports])
  /\ listens \in 0..MaxListens
  /\ waiting \in {"no", "yes", "ok", "failed"}
  /\ call \in {"none", "Connect", "Close"}
  /\ faults \subseteq {"Indicated", "Destroyed", "NoActual", "TwoActual"}

(* An indication reaches the stream only for the connect it is waiting     *)
(* for: CFSStreamBase asserts that the indication is of its connector and  *)
(* that it has no transport yet, and the proxies assert a sink.  A stream  *)
(* that closed or connected again may find the answer to an earlier        *)
(* connect in its queue.                                                   *)
IndicationsExpected == "Indicated" \notin faults

(* A proxy in use is alive: no queued event and no busy connector of the   *)
(* network thread refers to a deleted proxy, and the stream does not.      *)
NoDanglingProxy ==
  \A p \in Proxies : prox[p].life # "alive" =>
    /\ stream.con # p /\ prox[p].actual = "none"
    /\ \A i \in 1..Len(uq) : uq[i].type \in {"Connected", "Failed"} => uq[i].id # p
    /\ \A i \in 1..Len(nq) :
         nq[i].type \in {"AsycConnect", "CancelConnect", "Delete"} => nq[i].id # p

(* The assertions of the proxies hold.  StartListen finds no acceptor,     *)
(* StopListen and CancelConnect find the acceptor or connector they are to *)
(* stop, although the user thread posts StopListen and goes on.  A         *)
(* connector proxy is destroyed stopped ("this assert helps to debug that  *)
(* the upper layer didn't call CancelConnect() before"): CFSStreamBase     *)
(* calls it on every path on which it drops a connector.                   *)
AssertionsKept == faults \cap {"NoActual", "TwoActual", "Destroyed"} = {}

(* No transport is lost between the threads: one that was opened for an    *)
(* indication is handed to the user or disconnected, and one the user      *)
(* left is closed.                                                         *)
TransportNotLost ==
  \A t \in Transports :
    (trs[t] \in {"posted", "leaving"}) ~> (trs[t] \in {"held", "closed"})

(* A connector proxy the stream has dropped is deleted in the end.         *)
ProxyDeleted ==
  \A p \in Proxies :
    (prox[p].life = "alive" /\ stream.con # p) ~> (prox[p].life = "dead")
=============================================================================
