---------------------------- MODULE UdpAcceptor ----------------------------
(***************************************************************************)
(* UDP on the network thread.  A CFSAcceptorUdp receives all datagrams of  *)
(* its address on one socket and hands them to one CFSTransportUdp per     *)
(* peer, found in a table that all acceptors share.  Such a transport has  *)
(* no socket of its own: it keeps the number of the acceptor's descriptor. *)
(* A CFSConnectorUdpT opens a socket for its transport.                    *)
(*                                                                         *)
(* Everything here runs on one thread, called by epoll events, timers and  *)
(* the events of the thread proxies, in any order.  An acceptor object     *)
(* listens once: the proxy creates a new one for each StartListen.         *)
(***************************************************************************)
EXTENDS Integers

CONSTANTS Fds,            \* descriptor numbers, a set of positive integers
          Addrs,          \* addresses to listen on
          Peers,          \* addresses of peers
          MaxListens,     \* bound: acceptors created
          MaxTransports   \* bound: transports created

ASSUME UdpAssumption ==
  /\ Fds \subseteq Nat \ {0} /\ Addrs # {} /\ Peers # {}
  /\ MaxListens \in Nat /\ MaxTransports \in Nat

Acceptors == 1..MaxListens
Transports == 1..MaxTransports
Pairs == Peers \X Addrs           \* CFSPairInetAddr

VARIABLES
  owner,   \* who opened the socket of a descriptor
  acc,     \* the acceptors: state, m_Socket, m_AddrLocol
  trp,     \* the transports: state, m_pAcceptor, m_AddrSend, m_SocketUdp
  table,   \* s_pfsUdpTransports
  faults   \* assertions and promises of the code that did not hold

vars == <<owner, acc, trp, table, faults>>

Nobody == <<"nobody", 0>>
AcceptorOf(a) == <<"acceptor", a>>
TransportOf(t) == <<"transport", t>>

Init ==
  /\ owner = [f \in Fds |-> Nobody]
  /\ acc = [a \in Acceptors |->
              [st |-> "new", fd |-> 0, addr |-> CHOOSE x \in Addrs : TRUE]]
  /\ trp = [t \in Transports |->
              [st |-> "new", acc |-> 0, peer |-> CHOOSE p \in Peers : TRUE, fd |-> 0]]
  /\ table = [pair \in Pairs |-> 0]
  /\ faults = {}

Lowest(S) == {n \in S : \A m \in S : n <= m}
FreeFds == Lowest({f \in Fds : owner[f] = Nobody})
FreshTransports == Lowest({t \in Transports : trp[t].st = "new"})
Listening(a) == acc[a].st = "listening"

---------------------------------------------------------------------------
(* CFSAcceptorUdp *)

\* bind() refuses an address in use.  An acceptor that fails to open is
\* dropped by the thread proxy and leaves nothing behind.
StartListen(a, x) ==
  /\ acc[a].st = "new"
  /\ \A b \in Acceptors : Listening(b) => acc[b].addr # x
  /\ \E f \in FreeFds :
       /\ acc' = [acc EXCEPT ![a] = [st |-> "listening", fd |-> f, addr |-> x]]
       /\ owner' = [owner EXCEPT ![f] = AcceptorOf(a)]
  /\ UNCHANGED <<trp, table, faults>>

\* Mutant: the socket is closed and the table keeps the transports.
StopListenKeeping(a) ==
  /\ Listening(a)
  /\ owner' = [owner EXCEPT ![acc[a].fd] = Nobody]
  /\ acc' = [acc EXCEPT ![a].st = "stopped", ![a].fd = 0]
  /\ UNCHANGED <<trp, table, faults>>

\* The transports of the address leave the table; they are not told.
StopListen(a) ==
  /\ Listening(a)
  /\ table' = [pair \in Pairs |->
                 IF pair[2] = acc[a].addr THEN 0 ELSE table[pair]]
  /\ owner' = [owner EXCEPT ![acc[a].fd] = Nobody]
  /\ acc' = [acc EXCEPT ![a].st = "stopped", ![a].fd = 0]
  /\ UNCHANGED <<trp, faults>>

\* OnReceiveCallback of the transport that was found or created.
Received(t) ==
  faults' = IF trp'[t].st = "open" /\ owner[trp'[t].fd] = AcceptorOf(trp'[t].acc)
            THEN faults ELSE faults \cup {"Misdelivered"}

\* One datagram of the loop of OnEpollInput.  A new peer gets a transport,
\* which the thread proxy opens in OnConnectIndication.
OnEpollInput(a, p) ==
  LET pair == <<p, acc[a].addr>> IN
  /\ Listening(a)
  /\ \/ /\ table[pair] # 0
        /\ UNCHANGED <<trp, table>>
        /\ Received(table[pair])
     \/ \E t \in FreshTransports :
          /\ table[pair] = 0
          /\ trp' = [trp EXCEPT ![t] =
                       [st |-> "open", acc |-> a, peer |-> p, fd |-> acc[a].fd]]
          /\ table' = [table EXCEPT ![pair] = t]
          /\ Received(t)
  /\ UNCHANGED <<owner, acc>>

\* Mutant: the stop flag of the acceptor is not looked at.
RemoveTransportAnyway(t) ==
  LET pair == <<trp[t].peer, acc[trp[t].acc].addr>> IN
  /\ table' = [table EXCEPT ![pair] = 0]
  /\ faults' = IF table[pair] = 0 THEN faults \cup {"NotErased"} ELSE faults

\* RemoveTransport: a stopped acceptor has nothing in the table.
RemoveTransport(t) ==
  LET pair == <<trp[t].peer, acc[trp[t].acc].addr>> IN
  \/ /\ ~Listening(trp[t].acc)
     /\ UNCHANGED <<table, faults>>
  \/ /\ Listening(trp[t].acc)
     /\ table' = [table EXCEPT ![pair] = 0]
     /\ faults' = IF table[pair] = 0 THEN faults \cup {"NotErased"} ELSE faults

---------------------------------------------------------------------------
(* CFSTransportUdp *)

\* Mutant: the transport of an acceptor closes the descriptor it borrowed.
Disconnect_tClosing(t) ==
  /\ trp[t].st = "open"
  /\ trp' = [trp EXCEPT ![t].st = "left", ![t].fd = 0]
  /\ owner' = [owner EXCEPT ![trp[t].fd] = Nobody]
  /\ IF trp[t].acc = 0 THEN UNCHANGED <<table, faults>> ELSE RemoveTransport(t)
  /\ UNCHANGED acc

\* Disconnect_t for the user's Disconnect, and Close_t for an error of recv:
\* a socket of its own is closed, a borrowed one is forgotten.
Disconnect_t(t) ==
  /\ trp[t].st = "open"
  /\ trp' = [trp EXCEPT ![t].st = "left", ![t].fd = 0]
  /\ \/ /\ trp[t].acc = 0
        /\ owner' = [owner EXCEPT ![trp[t].fd] = Nobody]
        /\ UNCHANGED <<table, faults>>
     \/ /\ trp[t].acc # 0
        /\ RemoveTransport(t)
        /\ UNCHANGED owner
  /\ UNCHANGED acc

\* What SendData may answer: it refuses when the transport has no handle.
\* Otherwise it takes what SendV or SendVTo returns for the bytes sent or an
\* error.  SendV is writev() on the transport's own socket.  SendVTo, for a
\* transport of an acceptor, makes no system call and returns a variable that
\* nobody has set, so that every answer is possible, whatever its socket is.
SendResults(t) ==
  IF trp[t].fd = 0 THEN {"NOT_INITIALIZED"}
                   ELSE {"OK", "PARTIAL_DATA", "SOCKET_ERROR"}

SendData(t) ==
  /\ trp[t].st \in {"open", "left"}
  /\ \E rv \in SendResults(t) :
       faults' = IF rv = "OK" /\ trp[t].acc # 0 /\ ~Listening(trp[t].acc)
                 THEN faults \cup {"SentAfterStop"} ELSE faults
  /\ UNCHANGED <<owner, acc, trp, table>>

---------------------------------------------------------------------------
(* CFSConnectorUdpT *)

\* Connect: the socket is open and connected at once; a zero timer answers.
Connect(p) ==
  /\ \E t \in FreshTransports, f \in FreeFds :
       /\ trp' = [trp EXCEPT ![t] =
                    [st |-> "connecting", acc |-> 0, peer |-> p, fd |-> f]]
       /\ owner' = [owner EXCEPT ![f] = TransportOf(t)]
  /\ UNCHANGED <<acc, table, faults>>

\* OnTimeout: the wrapper and the thread proxy take the transport over.
OnTimeout(t) ==
  /\ trp[t].st = "connecting"
  /\ trp' = [trp EXCEPT ![t].st = "open"]
  /\ UNCHANGED <<owner, acc, table, faults>>

\* Close, for CancelConnect: deletes the transport and with it the socket.
Close(t) ==
  /\ trp[t].st = "connecting"
  /\ trp' = [trp EXCEPT ![t].st = "left", ![t].fd = 0]
  /\ owner' = [owner EXCEPT ![trp[t].fd] = Nobody]
  /\ UNCHANGED <<acc, table, faults>>

Next ==
  \/ \E a \in Acceptors :
       \/ \E x \in Addrs : StartListen(a, x)
       \/ StopListen(a)
       \/ \E p \in Peers : OnEpollInput(a, p)
  \/ \E t \in Transports :
       Disconnect_t(t) \/ SendData(t) \/ OnTimeout(t) \/ Close(t)
  \/ \E p \in Peers : Connect(p)

Spec == Init /\ [][Next]_vars

---------------------------------------------------------------------------
(* Every variable has its type. *)
TypeOK ==
  /\ owner \in [Fds -> {Nobody} \cup {AcceptorOf(a) : a \in Acceptors}
                         \cup {TransportOf(t) : t \in Transports}]
  /\ acc \in [Acceptors -> [st : {"new", "listening", "stopped"},
                            fd : Fds \cup {0}, addr : Addrs]]
  /\ trp \in [Transports -> [st : {"new", "connecting", "open", "left"},
                             acc : Acceptors \cup {0}, peer : Peers,
                             fd : Fds \cup {0}]]
  /\ table \in [Pairs -> Transports \cup {0}]
  /\ faults \subseteq {"Misdelivered", "NotErased", "SentAfterStop"}

(* The table that all acceptors share holds exactly the open transports of *)
(* the acceptors that are listening, each under its peer and the address   *)
(* of its own acceptor, also when an address is listened on again while    *)
(* transports of its former acceptor are still in use.                     *)
TableExact ==
  /\ \A pair \in Pairs : table[pair] # 0 =>
       LET t == trp[table[pair]] IN
       /\ t.st = "open" /\ t.peer = pair[1] /\ t.acc # 0
       /\ Listening(t.acc) /\ acc[t.acc].addr = pair[2]
  /\ \A t \in Transports :
       trp[t].st = "open" /\ trp[t].acc # 0 =>
         (Listening(trp[t].acc)
            => table[<<trp[t].peer, acc[trp[t].acc].addr>>] = t)

(* A descriptor stays with whoever opened it: a listening acceptor and a   *)
(* connected transport have an open socket of their own, whatever the      *)
(* transports that borrow an acceptor's number do.                         *)
SocketKept ==
  /\ \A a \in Acceptors : Listening(a) => owner[acc[a].fd] = AcceptorOf(a)
  /\ \A t \in Transports :
       trp[t].st \in {"connecting", "open"} /\ trp[t].acc = 0
         => owner[trp[t].fd] = TransportOf(t)

(* A datagram is given to an open transport of the acceptor that received  *)
(* it: OnReceiveCallback asserts its sink.                                 *)
Delivered == "Misdelivered" \notin faults

(* RemoveTransport asserts that it erased one entry.                       *)
EraseFindsEntry == "NotErased" \notin faults

(* The assertions on the shared table hold: OnReceiveCallback finds an     *)
(* open transport of the acceptor, RemoveTransport the entry it erases.    *)
AssertionsKept == Delivered /\ EraseFindsEntry

(* "the UDP transport will not SendData() successfully if the UDP socket   *)
(* is closed in UDP acceptor": SendData of a transport whose acceptor has  *)
(* stopped does not return CAW_OK.                                         *)
NoSendAfterStop == "SentAfterStop" \notin faults
=============================================================================
