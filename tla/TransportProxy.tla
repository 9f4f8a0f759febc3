-------------------------- MODULE TransportProxy --------------------------
(***************************************************************************)
(* One TCP connection of the socket library, seen from both of its         *)
(* threads.  The user thread owns a CFSStreamBase that talks to a          *)
(* CFSTransportThreadProxy; the network thread owns the CFSTransportTcp    *)
(* the proxy forwards to.  They communicate by two event queues, by the    *)
(* stop flag and by two unprotected flags of the proxy, and the proxy dies *)
(* when its last reference is released, on whichever thread that happens.  *)
(*                                                                         *)
(* Bytes are numbered: the stream produces 1, 2, 3, ... and a byte keeps   *)
(* its number on its way to the socket.  The chunks the peer sends are     *)
(* numbered the same way.  The connection is CTYPE_TCP.                    *)
(***************************************************************************)
EXTENDS Integers, Sequences

CONSTANTS MessageSize,   \* bytes of a message given to SendMessage
          MaxBytes,      \* bound: bytes the stream produces
          MaxChunks,     \* bound: chunks the peer sends
          SocketBuffer   \* bytes the socket's send buffer holds

ASSUME SizesAssumption ==
  /\ {MessageSize, SocketBuffer} \subseteq Nat \ {0}
  /\ {MaxBytes, MaxChunks} \subseteq Nat

VARIABLES
  m_pTransport,    \* the stream holds a reference to the proxy
  m_pMbSendBuf,    \* bytes of the stream the proxy has not accepted
  produced,        \* bytes given to SendMessage so far
  received,        \* chunks handed to CFSStreamBase::OnReceive
  told,            \* CFSStreamBase::OnDisconnect calls
  userpc,          \* what the user thread is in the middle of
  userQ,           \* event queue of the user thread
  netpc,           \* what the network thread is in the middle of
  netQ,            \* event queue of the network thread
  m_bStoppedFlag,  \* CAWStopFlag of the proxy
  m_pSinkActual,   \* the proxy has a sink
  m_bNeedOnSend,
  m_bIsBufferFull,
  m_bPartialDataLastTime,
  m_SendBuffer,    \* bytes queued in the proxy
  trpt,            \* the CFSTransportTcp: socket open, sink set, m_bNeedOnSend,
                   \* handler registered
  sock,            \* the socket, see Socket
  timer,           \* threads whose timer queue holds m_TimerReference0
  deleted          \* runs of the proxy's destructor

streamVars == <<m_pTransport, m_pMbSendBuf, produced, received, told>>
flagVars == <<m_bIsBufferFull, m_bPartialDataLastTime, m_SendBuffer>>
vars == <<streamVars, userpc, userQ, netpc, netQ, m_bStoppedFlag,
          m_pSinkActual, m_bNeedOnSend, flagVars, trpt, sock, timer, deleted>>

Upto(n) == [i \in 1..n |-> i]

(* The socket: the bytes written to it, how many of them the peer has      *)
(* taken, the chunks the peer sent and those read here, the end of the     *)
(* stream, a connection error, and the two edges of the kqueue filters.    *)
Socket ==
  [wire : Seq(1..MaxBytes), taken : 0..MaxBytes, sent : 0..MaxChunks,
   read : 0..MaxChunks, fin : BOOLEAN, err : BOOLEAN,
   inEdge : BOOLEAN, outEdge : BOOLEAN]

Room == SocketBuffer - (Len(sock.wire) - sock.taken)

UserEvent ==
  {<<"OnConnectIndication", 0>>, <<"OnSend", 0>>, <<"OnDisconnect", 0>>}
    \cup {<<"OnReceive", c>> : c \in 1..MaxChunks}

(* The count of references to the proxy has come to zero: the stream has   *)
(* none and no queued event carries one.  A CAWEventDeleteT carries a      *)
(* plain pointer.                                                          *)
Unreferenced ==
  /\ ~m_pTransport /\ userQ = <<>>
  /\ \A i \in DOMAIN netQ : netQ[i][1] = "Delete"

Init ==
  /\ m_pTransport = FALSE /\ m_pMbSendBuf = <<>> /\ produced = 0
  /\ received = <<>> /\ told = 0
  /\ userpc = "idle" /\ userQ = <<<<"OnConnectIndication", 0>>>>
  /\ netpc = "idle" /\ netQ = <<>>
  /\ m_bStoppedFlag = FALSE /\ m_pSinkActual = FALSE /\ m_bNeedOnSend = FALSE
  /\ m_bIsBufferFull = FALSE /\ m_bPartialDataLastTime = FALSE
  /\ m_SendBuffer = <<>>
  /\ trpt = [fd |-> TRUE, sink |-> TRUE, needOnSend |-> FALSE, reg |-> TRUE]
  /\ sock = [wire |-> <<>>, taken |-> 0, sent |-> 0, read |-> 0, fin |-> FALSE,
             err |-> FALSE, inEdge |-> FALSE, outEdge |-> TRUE]
  /\ timer = {} /\ deleted = 0

(* ReleaseReference on thread th once the queues and m_pTransport have     *)
(* their new values: the last release stops the proxy and arms             *)
(* m_TimerReference0 on that thread.                                       *)
ReleaseReference(th, stopped) ==
  /\ m_bStoppedFlag' = (stopped \/ Unreferenced')
  /\ timer' = IF Unreferenced' THEN timer \cup {th} ELSE timer

---------------------------------------------------------------------------
(* The user thread. *)

Idle == userpc = "idle"

(* CFSTransportThreadProxy::SendData(buf) up to its read of                *)
(* m_bIsBufferFull; `after' is where the user thread goes if it has to     *)
(* read m_bPartialDataLastTime too.  Accepted bytes leave the stream's     *)
(* buffer for the network queue.                                           *)
SendData(buf, after) ==
  \/ /\ m_bStoppedFlag
     /\ m_pMbSendBuf' = buf
     /\ UNCHANGED <<userpc, netQ>>
  \/ /\ ~m_bStoppedFlag /\ m_bIsBufferFull
     /\ m_pMbSendBuf' = buf
     /\ userpc' = after
     /\ UNCHANGED netQ
  \/ /\ ~m_bStoppedFlag /\ ~m_bIsBufferFull
     /\ netQ' = Append(netQ, <<"SendData", buf>>)
     /\ m_pMbSendBuf' = <<>>
     /\ UNCHANGED userpc

SendMessage ==
  /\ Idle /\ m_pTransport
  /\ produced + MessageSize <= MaxBytes
  /\ produced' = produced + MessageSize
  /\ SendData(m_pMbSendBuf \o [i \in 1..MessageSize |-> produced + i],
              "SendMessage")
  /\ UNCHANGED <<m_pTransport, received, told, userQ, netpc, m_bStoppedFlag,
                 m_pSinkActual, m_bNeedOnSend, flagVars, trpt, sock, timer,
                 deleted>>

(* The second read of SendData: refuse with CAW_ERROR_PARTIAL_DATA, or     *)
(* post the bytes.  If CFSStreamBase::OnSend was the caller its event is   *)
(* destroyed on the way out.                                               *)
SendDataPartial ==
  /\ ~Idle
  /\ \/ /\ ~m_bPartialDataLastTime
        /\ m_bNeedOnSend' = TRUE
        /\ UNCHANGED <<netQ, m_pMbSendBuf>>
     \/ /\ m_bPartialDataLastTime
        /\ netQ' = Append(netQ, <<"SendData", m_pMbSendBuf>>)
        /\ m_pMbSendBuf' = <<>>
        /\ UNCHANGED m_bNeedOnSend
  /\ userQ' = IF userpc = "OnSend" THEN Tail(userQ) ELSE userQ
  /\ userpc' = "idle"
  /\ UNCHANGED <<m_pTransport, produced, received, told>>
  /\ ReleaseReference("user", m_bStoppedFlag)
  /\ UNCHANGED <<netpc, m_pSinkActual, flagVars, trpt, sock, deleted>>

(* CFSStreamBase::Close and its destructor: Disconnect the proxy and drop  *)
(* the reference.                                                          *)
Disconnect ==
  /\ m_pSinkActual' = IF m_bStoppedFlag THEN m_pSinkActual ELSE FALSE
  /\ netQ' = IF m_bStoppedFlag THEN netQ
             ELSE Append(netQ, <<"Disconnect", <<>>>>)

(* A mutant: the stream drops the proxy without disconnecting it. *)
CloseSilently ==
  /\ Idle /\ m_pTransport
  /\ m_pTransport' = FALSE
  /\ UNCHANGED <<userQ, netQ, m_pSinkActual>>
  /\ ReleaseReference("user", m_bStoppedFlag)
  /\ UNCHANGED <<m_pMbSendBuf, produced, received, told, userpc, netpc,
                 m_bNeedOnSend, flagVars, trpt, sock, deleted>>

Close ==
  /\ Idle /\ m_pTransport
  /\ Disconnect
  /\ m_pTransport' = FALSE
  /\ UNCHANGED userQ
  /\ ReleaseReference("user", TRUE)
  /\ UNCHANGED <<m_pMbSendBuf, produced, received, told, userpc, netpc,
                 m_bNeedOnSend, flagVars, trpt, sock, deleted>>

(* The events of the user thread's queue; each is destroyed, and its       *)
(* reference released, when its OnEventFire returns.                       *)
Firing(type) == Idle /\ userQ # <<>> /\ Head(userQ)[1] = type

(* CFSEventOnConnectIndication: the stream takes the proxy and opens it    *)
(* (SetTransportHandle), or the connector was cancelled meanwhile and the  *)
(* event disconnects the proxy nobody wants.                               *)
FireOnConnectIndication ==
  /\ Firing("OnConnectIndication")
  /\ userQ' = Tail(userQ)
  /\ \/ /\ m_pTransport' = TRUE /\ m_pSinkActual' = TRUE
        /\ UNCHANGED netQ
        /\ ReleaseReference("user", m_bStoppedFlag)
     \/ /\ Disconnect
        /\ UNCHANGED m_pTransport
        /\ ReleaseReference("user", TRUE)
  /\ UNCHANGED <<m_pMbSendBuf, produced, received, told, userpc, netpc,
                 m_bNeedOnSend, flagVars, trpt, sock, deleted>>

(* A mutant: the stop flag is not looked at. *)
FireOnReceiveAnyway ==
  /\ Firing("OnReceive")
  /\ userQ' = Tail(userQ)
  /\ received' = Append(received, Head(userQ)[2])
  /\ UNCHANGED <<m_pTransport, netQ>>
  /\ ReleaseReference("user", m_bStoppedFlag)
  /\ UNCHANGED <<m_pMbSendBuf, produced, told, userpc, netpc, m_pSinkActual,
                 m_bNeedOnSend, flagVars, trpt, sock, deleted>>

FireOnReceive ==
  /\ Firing("OnReceive")
  /\ userQ' = Tail(userQ)
  /\ received' = IF ~m_bStoppedFlag /\ m_pSinkActual
                 THEN Append(received, Head(userQ)[2]) ELSE received
  /\ UNCHANGED <<m_pTransport, netQ>>
  /\ ReleaseReference("user", m_bStoppedFlag)
  /\ UNCHANGED <<m_pMbSendBuf, produced, told, userpc, netpc, m_pSinkActual,
                 m_bNeedOnSend, flagVars, trpt, sock, deleted>>

(* CFSEventOnSend: CFSStreamBase::OnSend offers the bytes it kept. *)
FireOnSend ==
  /\ Firing("OnSend")
  /\ LET call == ~m_bStoppedFlag /\ m_pSinkActual /\ m_bNeedOnSend IN
     /\ m_bNeedOnSend' = (m_bNeedOnSend /\ ~call)
     /\ IF call /\ m_pMbSendBuf # <<>> THEN SendData(m_pMbSendBuf, "OnSend")
        ELSE UNCHANGED <<m_pMbSendBuf, userpc, netQ>>
     /\ userQ' = IF userpc' = "OnSend" THEN userQ ELSE Tail(userQ)
  /\ UNCHANGED m_pTransport
  /\ ReleaseReference("user", m_bStoppedFlag)
  /\ UNCHANGED <<produced, received, told, netpc, m_pSinkActual, flagVars,
                 trpt, sock, deleted>>

(* CFSEventOnDisconnect: stop the proxy, tell the stream, which lets its   *)
(* reference go.                                                           *)
FireOnDisconnect ==
  /\ Firing("OnDisconnect")
  /\ userQ' = Tail(userQ)
  /\ LET call == ~m_bStoppedFlag /\ m_pSinkActual IN
     /\ told' = IF call THEN told + 1 ELSE told
     /\ m_pTransport' = (m_pTransport /\ ~call)
  /\ UNCHANGED netQ
  /\ ReleaseReference("user", TRUE)
  /\ UNCHANGED <<m_pMbSendBuf, produced, received, userpc, netpc,
                 m_pSinkActual, m_bNeedOnSend, flagVars, trpt, sock, deleted>>

(* A mutant: the user thread's timer forgets the delete event. *)
OnTimerUserForgets ==
  /\ Idle /\ "user" \in timer
  /\ timer' = timer \ {"user"}
  /\ UNCHANGED <<streamVars, userpc, userQ, netpc, netQ, m_bStoppedFlag,
                 m_pSinkActual, m_bNeedOnSend, flagVars, trpt, sock, deleted>>

(* CFSTransportThreadProxy::OnTimer on the user thread: the network thread *)
(* must do the deletion.                                                   *)
OnTimerUser ==
  /\ Idle /\ "user" \in timer
  /\ timer' = timer \ {"user"}
  /\ netQ' = Append(netQ, <<"Delete", <<>>>>)
  /\ UNCHANGED <<streamVars, userpc, userQ, netpc, m_bStoppedFlag,
                 m_pSinkActual, m_bNeedOnSend, flagVars, trpt, sock, deleted>>

---------------------------------------------------------------------------
(* The network thread. *)

NetIdle == netpc = "idle" /\ deleted = 0

(* CFSTransportTcp::SendData of the bytes `todo' (the proxy's buffer and,  *)
(* behind it, the data of the event): the socket takes what it has room    *)
(* for; EWOULDBLOCK asks for a later OnOutput, an error does not.          *)
Writable == trpt.fd /\ ~sock.err
Fits(todo) ==
  IF ~Writable THEN 0 ELSE IF Len(todo) < Room THEN Len(todo) ELSE Room

(* A mutant: EWOULDBLOCK does not ask for OnOutput. *)
WriteForgetful(todo, s, t) ==
  LET n == Fits(todo) IN
  /\ sock' = [s EXCEPT !.wire = @ \o SubSeq(todo, 1, n)]
  /\ m_SendBuffer' = SubSeq(todo, n + 1, Len(todo))
  /\ trpt' = t

Write(todo, s, t) ==
  LET n == Fits(todo) IN
  /\ sock' = [s EXCEPT !.wire = @ \o SubSeq(todo, 1, n)]
  /\ m_SendBuffer' = SubSeq(todo, n + 1, Len(todo))
  /\ trpt' = [t EXCEPT !.needOnSend = @ \/ (Writable /\ n < Len(todo))]

(* Send_i up to its first write to a flag: m_bIsBufferFull after success,  *)
(* m_bPartialDataLastTime on the fail path.  `after' is the second write.  *)
Send_i(todo, s, t, after) ==
  /\ Write(todo, s, t)
  /\ IF m_SendBuffer' = <<>>
     THEN m_bIsBufferFull' = FALSE /\ UNCHANGED m_bPartialDataLastTime
     ELSE m_bPartialDataLastTime' = Writable /\ UNCHANGED m_bIsBufferFull
  /\ netpc' = after

(* A mutant: Send_i writes its data straight to the socket although older  *)
(* data waits in m_SendBuffer.                                             *)
FireSendDataOvertaking ==
  /\ NetIdle /\ netQ # <<>> /\ Head(netQ)[1] = "SendData"
  /\ netQ' = [netQ EXCEPT ![1] = <<"SendData", <<>>>>]
  /\ Send_i(Head(netQ)[2] \o m_SendBuffer, sock, trpt, "SendData")
  /\ UNCHANGED <<streamVars, userpc, userQ, m_bStoppedFlag, m_pSinkActual,
                 m_bNeedOnSend, timer, deleted>>

(* CFSEventSendData: with an empty buffer and room for everything the      *)
(* flags are not touched and the event is done.                            *)
FireSendData ==
  /\ NetIdle /\ netQ # <<>> /\ Head(netQ)[1] = "SendData"
  /\ LET data == Head(netQ)[2] IN
     \/ /\ m_SendBuffer = <<>> /\ Fits(data) = Len(data)
        /\ Write(data, sock, trpt)
        /\ netQ' = Tail(netQ)
        /\ UNCHANGED <<userQ, m_pTransport, m_bIsBufferFull,
                       m_bPartialDataLastTime, netpc>>
        /\ ReleaseReference("net", m_bStoppedFlag)
     \/ /\ m_SendBuffer # <<>> \/ Fits(data) < Len(data)
        /\ netQ' = [netQ EXCEPT ![1] = <<"SendData", <<>>>>]
        /\ Send_i(m_SendBuffer \o data, sock, trpt, "SendData")
        /\ UNCHANGED <<userQ, m_pTransport, m_bStoppedFlag, timer>>
  /\ UNCHANGED <<m_pMbSendBuf, produced, received, told, userpc,
                 m_pSinkActual, m_bNeedOnSend, deleted>>

(* A mutant: no CFSEventOnSend is posted. *)
Send_iDoneQuietly ==
  /\ netpc \in {"SendData", "OnSend"}
  /\ IF m_SendBuffer = <<>>
     THEN m_bPartialDataLastTime' = FALSE /\ UNCHANGED m_bIsBufferFull
     ELSE m_bIsBufferFull' = TRUE /\ UNCHANGED m_bPartialDataLastTime
  /\ netpc' = "idle"
  /\ netQ' = IF netpc = "SendData" THEN Tail(netQ) ELSE netQ
  /\ UNCHANGED <<userQ, m_pTransport>>
  /\ ReleaseReference("net", m_bStoppedFlag)
  /\ UNCHANGED <<m_pMbSendBuf, produced, received, told, userpc,
                 m_pSinkActual, m_bNeedOnSend, m_SendBuffer, trpt, sock,
                 deleted>>

(* The second write of Send_i, then the rest of its caller: the event goes *)
(* away, or OnSend posts CFSEventOnSend unless the buffer is full.         *)
Send_iDone ==
  /\ netpc \in {"SendData", "OnSend"}
  /\ IF m_SendBuffer = <<>>
     THEN m_bPartialDataLastTime' = FALSE /\ UNCHANGED m_bIsBufferFull
     ELSE m_bIsBufferFull' = TRUE /\ UNCHANGED m_bPartialDataLastTime
  /\ netpc' = "idle"
  /\ netQ' = IF netpc = "SendData" THEN Tail(netQ) ELSE netQ
  /\ userQ' = IF netpc = "OnSend" /\ m_SendBuffer = <<>>
              THEN Append(userQ, <<"OnSend", 0>>) ELSE userQ
  /\ UNCHANGED m_pTransport
  /\ ReleaseReference("net", m_bStoppedFlag)
  /\ UNCHANGED <<m_pMbSendBuf, produced, received, told, userpc,
                 m_pSinkActual, m_bNeedOnSend, m_SendBuffer, trpt, sock,
                 deleted>>

(* The reactor removes the transport and calls CFSTransportBase::OnClose:  *)
(* the socket is closed and the proxy's OnDisconnect looks at its flag.    *)
OnClose ==
  /\ trpt' = [trpt EXCEPT !.reg = FALSE, !.fd = FALSE, !.sink = FALSE]
  /\ netpc' = IF m_bStoppedFlag THEN "idle" ELSE "OnDisconnect"

(* The write filter of the socket fired.  With a pending socket error      *)
(* RunEventLoop adds CLOSE_MASK, else CFSTransportTcp::OnOutput calls      *)
(* CFSTransportThreadProxy::OnSend if a SendData met a full socket.        *)
OnOutput ==
  /\ NetIdle /\ trpt.reg /\ sock.outEdge
  /\ \/ /\ sock.err
        /\ sock' = [sock EXCEPT !.outEdge = FALSE]
        /\ OnClose
        /\ UNCHANGED flagVars
     \/ /\ ~sock.err /\ (~trpt.needOnSend \/ m_bStoppedFlag)
        /\ sock' = [sock EXCEPT !.outEdge = FALSE]
        /\ trpt' = [trpt EXCEPT !.needOnSend = FALSE]
        /\ UNCHANGED <<flagVars, netpc>>
     \/ /\ ~sock.err /\ trpt.needOnSend /\ ~m_bStoppedFlag
        /\ Send_i(m_SendBuffer, [sock EXCEPT !.outEdge = FALSE],
                  [trpt EXCEPT !.needOnSend = FALSE], "OnSend")
  /\ UNCHANGED <<streamVars, userpc, userQ, netQ, m_bStoppedFlag,
                 m_pSinkActual, m_bNeedOnSend, timer, deleted>>

(* The read filter fired: CFSTransportTcp::OnEpollInput receives until the *)
(* socket has nothing more, the stream ends or an error is pending.        *)
OnInput ==
  /\ NetIdle /\ trpt.reg /\ sock.inEdge
  /\ sock' = [sock EXCEPT !.inEdge = FALSE]
  /\ netpc' = "recv"
  /\ UNCHANGED <<streamVars, userpc, userQ, netQ, m_bStoppedFlag,
                 m_pSinkActual, m_bNeedOnSend, flagVars, trpt, timer, deleted>>

(* A mutant: the end of the stream is acted on before the data is read. *)
Recv_iEndFirst ==
  /\ netpc = "recv"
  /\ IF sock.err \/ sock.fin
     THEN OnClose /\ UNCHANGED sock
     ELSE /\ sock' = [sock EXCEPT !.read = IF @ < sock.sent THEN @ + 1 ELSE @]
          /\ netpc' = IF sock.read = sock.sent THEN "idle"
                      ELSE IF m_bStoppedFlag THEN "recv" ELSE "OnReceive"
          /\ UNCHANGED trpt
  /\ UNCHANGED <<streamVars, userpc, userQ, netQ, m_bStoppedFlag,
                 m_pSinkActual, m_bNeedOnSend, flagVars, timer, deleted>>

(* One turn of that loop with the stop flag read by the proxy's OnReceive. *)
Recv_i ==
  /\ netpc = "recv"
  /\ \/ /\ sock.err \/ (sock.read = sock.sent /\ sock.fin)
        /\ OnClose
        /\ UNCHANGED sock
     \/ /\ ~sock.err /\ sock.read < sock.sent
        /\ sock' = [sock EXCEPT !.read = @ + 1]
        /\ netpc' = IF m_bStoppedFlag THEN "recv" ELSE "OnReceive"
        /\ UNCHANGED trpt
     \/ /\ ~sock.err /\ sock.read = sock.sent /\ ~sock.fin
        /\ netpc' = "idle"
        /\ UNCHANGED <<sock, trpt>>
  /\ UNCHANGED <<streamVars, userpc, userQ, netQ, m_bStoppedFlag,
                 m_pSinkActual, m_bNeedOnSend, flagVars, timer, deleted>>

(* CFSTransportThreadProxy::OnReceive posts the chunk.  The flag may have  *)
(* been set since it was read.                                             *)
PostOnReceive ==
  /\ netpc = "OnReceive"
  /\ userQ' = Append(userQ, <<"OnReceive", sock.read>>)
  /\ netpc' = "recv"
  /\ UNCHANGED <<streamVars, userpc, netQ, m_bStoppedFlag, m_pSinkActual,
                 m_bNeedOnSend, flagVars, trpt, sock, timer, deleted>>

(* CFSTransportThreadProxy::OnDisconnect disconnects the transport, which  *)
(* is already unregistered, and posts the news.                            *)
PostOnDisconnect ==
  /\ netpc = "OnDisconnect"
  /\ userQ' = Append(userQ, <<"OnDisconnect", 0>>)
  /\ netpc' = "idle"
  /\ UNCHANGED <<streamVars, userpc, netQ, m_bStoppedFlag, m_pSinkActual,
                 m_bNeedOnSend, flagVars, trpt, sock, timer, deleted>>

(* CFSEventDisconnect: CFSTransportBase::Disconnect removes the handler    *)
(* and the sink; the socket stays open until the transport dies.           *)
FireDisconnect ==
  /\ NetIdle /\ netQ # <<>> /\ Head(netQ)[1] = "Disconnect"
  /\ trpt' = [trpt EXCEPT !.reg = FALSE, !.sink = FALSE]
  /\ netQ' = Tail(netQ)
  /\ UNCHANGED <<userQ, m_pTransport>>
  /\ ReleaseReference("net", m_bStoppedFlag)
  /\ UNCHANGED <<m_pMbSendBuf, produced, received, told, userpc, netpc,
                 m_pSinkActual, m_bNeedOnSend, flagVars, sock, deleted>>

(* The destructor, run by the CAWEventDeleteT or by the network thread's   *)
(* own timer.  It disconnects the transport and drops the last reference   *)
(* to it, and with it the socket.                                          *)
Destroy ==
  /\ deleted' = deleted + 1
  /\ trpt' = [trpt EXCEPT !.reg = FALSE, !.sink = FALSE, !.fd = FALSE]
  /\ UNCHANGED <<streamVars, userpc, userQ, netpc, m_bStoppedFlag,
                 m_pSinkActual, m_bNeedOnSend, flagVars, sock>>

FireDelete ==
  /\ netpc = "idle" /\ deleted < 2
  /\ netQ # <<>> /\ Head(netQ)[1] = "Delete"
  /\ netQ' = Tail(netQ)
  /\ UNCHANGED timer
  /\ Destroy

OnTimerNet ==
  /\ netpc = "idle" /\ deleted < 2
  /\ "net" \in timer
  /\ timer' = timer \ {"net"}
  /\ UNCHANGED netQ
  /\ Destroy

---------------------------------------------------------------------------
(* The peer and the TCP below the socket. *)

Peer ==
  /\ trpt.fd
  /\ \/ /\ sock.sent < MaxChunks /\ ~sock.fin /\ ~sock.err
        /\ sock' = [sock EXCEPT !.sent = @ + 1, !.inEdge = TRUE]
     \/ /\ ~sock.fin /\ ~sock.err
        /\ sock' = [sock EXCEPT !.fin = TRUE, !.inEdge = TRUE]
     \/ /\ ~sock.err
        /\ sock' = [sock EXCEPT !.err = TRUE, !.inEdge = TRUE,
                                !.outEdge = TRUE]
  /\ UNCHANGED <<streamVars, userpc, userQ, netpc, netQ, m_bStoppedFlag,
                 m_pSinkActual, m_bNeedOnSend, flagVars, trpt, timer, deleted>>

PeerTakes ==
  /\ trpt.fd /\ ~sock.err /\ sock.taken < Len(sock.wire)
  /\ sock' = [sock EXCEPT !.taken = @ + 1, !.outEdge = TRUE]
  /\ UNCHANGED <<streamVars, userpc, userQ, netpc, netQ, m_bStoppedFlag,
                 m_pSinkActual, m_bNeedOnSend, flagVars, trpt, timer, deleted>>

UserLoop ==
  \/ SendDataPartial
  \/ FireOnConnectIndication \/ FireOnReceive \/ FireOnSend \/ FireOnDisconnect
  \/ OnTimerUser

NetEvents == FireSendData \/ FireDisconnect \/ FireDelete
NetLoop ==
  \/ NetEvents \/ Send_iDone
  \/ OnOutput \/ OnInput \/ Recv_i \/ PostOnReceive \/ PostOnDisconnect
  \/ OnTimerNet

Next == UserLoop \/ NetLoop \/ SendMessage \/ Close \/ Peer \/ PeerTakes

Spec == Init /\ [][Next]_vars

(* Both threads run loops that serve their queues, their timers and, on    *)
(* the network thread, each filter of the socket; the peer reads what it   *)
(* is sent.  Nobody has to send, close or reset.                           *)
Fairness ==
  /\ WF_vars(UserLoop)
  /\ WF_vars(NetLoop) /\ SF_vars(NetEvents) /\ SF_vars(OnOutput)
  /\ SF_vars(OnInput) /\ SF_vars(OnTimerNet)
  /\ WF_vars(PeerTakes)

FairSpec == Spec /\ Fairness

---------------------------------------------------------------------------

(* The bytes on their way from the stream to the socket: in the socket, in *)
(* the buffer of the proxy, in the events of the network thread and in the *)
(* buffer of the stream.                                                   *)
Part(i) ==
  CASE i = -1 -> sock.wire [] i = 0 -> m_SendBuffer
    [] i \in DOMAIN netQ -> netQ[i][2] [] OTHER -> m_pMbSendBuf

(* Not one byte is lost, duplicated or overtaken between SendMessage and   *)
(* the socket: the parts hold exactly the bytes ever produced, and a byte  *)
(* that is ahead of another one was produced before it.                    *)
BytesInOrder ==
  LET places == UNION {{i} \X DOMAIN Part(i) : i \in -1..(Len(netQ) + 1)}
      Byte(p) == Part(p[1])[p[2]]
  IN /\ {Byte(p) : p \in places} = 1..produced
     /\ \A p, q \in places :
          p[1] < q[1] \/ (p[1] = q[1] /\ p[2] < q[2]) => Byte(p) < Byte(q)

(* When the stream is told of a disconnect after an orderly end of the     *)
(* connection it has been given every chunk the peer sent, each once and   *)
(* in order: CFSEventOnDisconnect never overtakes received data.           *)
ReceivedAllBeforeDisconnect ==
  /\ received = Upto(Len(received))
  /\ told > 0 /\ ~sock.err => Len(received) = sock.sent

(* The stream is not called back once it has closed the connection or has  *)
(* been told of its end, whatever is still queued or being posted.         *)
NoCallbackAfterEnd ==
  [][received' # received \/ told' # told => m_pTransport /\ ~m_bStoppedFlag]_vars

(* The proxy dies once.  From the release of the last reference on, no     *)
(* thread takes a new reference, exactly one of timer, delete event and    *)
(* destructor is under way, and after the destructor neither the transport *)
(* nor the network thread can reach the proxy.                             *)
DestroyedOnce ==
  LET deletes == {i \in DOMAIN netQ : netQ[i][1] = "Delete"}
      dying == ({"timer"} \X timer) \cup ({"event"} \X deletes)
                 \cup ({"destructor"} \X (1..deleted))
  IN /\ \A x, y \in dying : x = y
     /\ dying # {} <=> Unreferenced
     /\ deleted = 1 => netpc = "idle" /\ ~trpt.sink /\ ~trpt.reg

(* Between two events of the network thread m_bIsBufferFull says exactly   *)
(* whether bytes wait in m_SendBuffer, as CFSTransportThreadProxy::OnSend  *)
(* asserts, and an open transport that holds bytes back for lack of room   *)
(* has asked for OnOutput.                                                 *)
FullMeansBuffered ==
  netpc \notin {"SendData", "OnSend"} =>
    /\ m_bIsBufferFull <=> m_SendBuffer # <<>>
    /\ m_SendBuffer # <<>> /\ m_bPartialDataLastTime /\ ~m_bStoppedFlag
         => trpt.needOnSend

(* A stream whose bytes were refused is called back with OnSend, or the    *)
(* connection ends.                                                        *)
RefusedIsCalledBack == m_bNeedOnSend ~> (~m_bNeedOnSend \/ m_bStoppedFlag)

(* Bytes the proxy took reach the socket, unless the connection ends.      *)
BytesReachSocket ==
  (m_SendBuffer # <<>>) ~> (m_SendBuffer = <<>> \/ m_bStoppedFlag)

(* A proxy the stream has let go of, or never took, is deleted.            *)
AbandonedIsDeleted ==
  (~m_pTransport /\ m_bStoppedFlag) ~> (deleted = 1)
=============================================================================
