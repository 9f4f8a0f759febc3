----------------------------- MODULE UdpProofs -----------------------------
(***************************************************************************)
(* The invariants of UdpAcceptor for any number of descriptors, addresses, *)
(* peers, acceptors and transports.                                        *)
(***************************************************************************)
EXTENDS UdpAcceptor, TLAPS

\* What an open transport of an acceptor knows of it, which descriptors are
\* in use, and that no two acceptors listen on one address.
Linked ==
  /\ \A t \in Transports : trp[t].st = "open" /\ trp[t].acc # 0 =>
       /\ acc[trp[t].acc].st # "new"
       /\ Listening(trp[t].acc) => trp[t].fd = acc[trp[t].acc].fd
  /\ \A t \in Transports :
       /\ trp[t].st \in {"connecting", "open"} => trp[t].fd \in Fds
       /\ trp[t].st = "connecting" => trp[t].acc = 0
  /\ \A a \in Acceptors : Listening(a) => acc[a].fd \in Fds
  /\ \A a, b \in Acceptors :
       Listening(a) /\ Listening(b) /\ acc[a].addr = acc[b].addr => a = b

IInv == TypeOK /\ TableExact /\ SocketKept /\ Linked /\ Delivered /\ EraseFindsEntry

\* Owners of sockets are told apart.
LEMMA Owners ==
  /\ \A a \in Acceptors : AcceptorOf(a) # Nobody
  /\ \A t \in Transports : TransportOf(t) # Nobody
  /\ \A a, b \in Acceptors : AcceptorOf(a) = AcceptorOf(b) => a = b
  /\ \A t, u \in Transports : TransportOf(t) = TransportOf(u) => t = u
  /\ \A a \in Acceptors, t \in Transports : AcceptorOf(a) # TransportOf(t)
BY Zenon DEF AcceptorOf, TransportOf, Nobody

\* Acceptors and transports are numbered from 1; a pair is a peer and an address.
LEMMA Numbers ==
  /\ Acceptors \subseteq Nat \ {0} /\ Transports \subseteq Nat \ {0}
  /\ \A p \in Peers, x \in Addrs : <<p, x>> \in Pairs
  /\ \A pair \in Pairs : pair[1] \in Peers /\ pair[2] \in Addrs
                         /\ pair = <<pair[1], pair[2]>>
BY UdpAssumption DEF Acceptors, Transports, Pairs

\* Before the first call there is nothing to relate.
LEMMA InitIInv == Init => IInv
<1> SUFFICES ASSUME Init PROVE IInv
  BY Zenon
<1> USE DEF Init
<1>1. (CHOOSE x \in Addrs : TRUE) \in Addrs /\ (CHOOSE p \in Peers : TRUE) \in Peers
  BY UdpAssumption, Zenon
<1>2. TypeOK
  BY <1>1, Zenon DEF TypeOK
<1>3. TableExact /\ SocketKept /\ Linked
  BY Zenon DEF TableExact, SocketKept, Linked, Listening
<1>4. Delivered /\ EraseFindsEntry
  BY Zenon DEF Delivered, EraseFindsEntry
<1> QED
  BY <1>2, <1>3, <1>4, Zenon DEF IInv

\* StartListen opens a socket on an address nobody listens on.
LEMMA StartListenIInv ==
  ASSUME IInv, NEW a \in Acceptors, NEW x \in Addrs, StartListen(a, x)
  PROVE  IInv'
<1> USE DEF IInv
<1>1. PICK f \in FreeFds :
        /\ acc' = [acc EXCEPT ![a] = [st |-> "listening", fd |-> f, addr |-> x]]
        /\ owner' = [owner EXCEPT ![f] = AcceptorOf(a)]
  BY Zenon DEF StartListen
<1>2. f \in Fds /\ owner[f] = Nobody
  BY Zenon DEF FreeFds, Lowest
<1>3. /\ acc[a].st = "new" /\ UNCHANGED <<trp, table, faults>>
      /\ \A b \in Acceptors : Listening(b) => acc[b].addr # x
  BY Zenon DEF StartListen
<1>4. TypeOK'
  BY <1>1, <1>2, <1>3, Zenon DEF TypeOK
<1>5. /\ acc'[a].st = "listening" /\ acc'[a].fd = f /\ acc'[a].addr = x
      /\ \A b \in Acceptors : b # a => acc'[b] = acc[b]
  BY <1>1, Zenon DEF TypeOK
<1>6. TableExact'
  <2>1. ASSUME NEW pair \in Pairs, table[pair] # 0
        PROVE  LET t == trp[table[pair]] IN
               /\ t.st = "open" /\ t.peer = pair[1] /\ t.acc # 0
               /\ acc'[t.acc].st = "listening" /\ acc'[t.acc].addr = pair[2]
    BY <2>1, <1>3, <1>5 DEF TypeOK, TableExact, Listening
  <2>2. ASSUME NEW t \in Transports, trp[t].st = "open", trp[t].acc # 0,
               acc'[trp[t].acc].st = "listening"
        PROVE  table[<<trp[t].peer, acc'[trp[t].acc].addr>>] = t
    <3>1. trp[t].acc \in Acceptors /\ trp[t].acc # a
      BY <2>2, <1>3 DEF TypeOK, Linked
    <3> QED
      BY <3>1, <2>2, <1>5 DEF TableExact, Listening
  <2> QED
    BY <2>1, <2>2, <1>3, Zenon DEF TableExact, Listening
<1>7. SocketKept'
  BY <1>1, <1>2, <1>3, <1>5, Owners DEF TypeOK, SocketKept, Listening, Linked
<1>8. Linked'
  BY <1>2, <1>3, <1>5 DEF TypeOK, Listening, Linked
<1>9. Delivered' /\ EraseFindsEntry'
  BY <1>3, Zenon DEF Delivered, EraseFindsEntry
<1> QED
  BY <1>4, <1>6, <1>7, <1>8, <1>9, Zenon

\* The updates of acceptors and transports field by field.
LEMMA Updates ==
  /\ \A r \in [st : {"new", "listening", "stopped"}, fd : Fds \cup {0}, addr : Addrs] :
       /\ [r EXCEPT !.st = "stopped", !.fd = 0]
            \in [st : {"new", "listening", "stopped"}, fd : Fds \cup {0}, addr : Addrs]
       /\ [r EXCEPT !.st = "stopped", !.fd = 0].st = "stopped"
  /\ \A r \in [st : {"new", "connecting", "open", "left"}, acc : Acceptors \cup {0},
               peer : Peers, fd : Fds \cup {0}] :
       /\ [r EXCEPT !.st = "left", !.fd = 0]
            \in [st : {"new", "connecting", "open", "left"}, acc : Acceptors \cup {0},
                 peer : Peers, fd : Fds \cup {0}]
       /\ [r EXCEPT !.st = "left", !.fd = 0].st = "left"
       /\ [r EXCEPT !.st = "open"]
            \in [st : {"new", "connecting", "open", "left"}, acc : Acceptors \cup {0},
                 peer : Peers, fd : Fds \cup {0}]
BY Zenon

\* StopListen erases by address, which is that of this acceptor alone.
LEMMA StopListenIInv ==
  ASSUME IInv, NEW a \in Acceptors, StopListen(a)
  PROVE  IInv'
<1> USE DEF IInv
<1>1. /\ Listening(a) /\ acc[a].fd \in Fds /\ owner[acc[a].fd] = AcceptorOf(a)
      /\ UNCHANGED <<trp, faults>>
  BY Zenon DEF StopListen, Linked, SocketKept
<1>2. TypeOK'
  <2>1. acc' \in [Acceptors -> [st : {"new", "listening", "stopped"},
                                fd : Fds \cup {0}, addr : Addrs]]
    <3>1. acc' = [acc EXCEPT ![a] = [acc[a] EXCEPT !.st = "stopped", !.fd = 0]]
      BY Zenon DEF StopListen, TypeOK
    <3>2. acc[a] \in [st : {"new", "listening", "stopped"}, fd : Fds \cup {0},
                      addr : Addrs]
      BY Zenon DEF TypeOK
    <3> DEFINE r == [acc[a] EXCEPT !.st = "stopped", !.fd = 0]
    <3>3. r \in [st : {"new", "listening", "stopped"}, fd : Fds \cup {0}, addr : Addrs]
      BY <3>2, Updates, Zenon
    <3>4. acc' = [acc EXCEPT ![a] = r]
      BY <3>1, Zenon
    <3> HIDE DEF r
    <3> QED
      BY <3>3, <3>4, Zenon DEF TypeOK
  <2>2. table' \in [Pairs -> Transports \cup {0}]
    BY Zenon DEF StopListen, TypeOK
  <2>3. owner' \in [Fds -> {Nobody} \cup {AcceptorOf(b) : b \in Acceptors}
                            \cup {TransportOf(t) : t \in Transports}]
    BY Zenon DEF StopListen, TypeOK
  <2> QED
    BY <1>1, <2>1, <2>2, <2>3, Zenon DEF TypeOK
<1>3. /\ acc'[a].st = "stopped"
      /\ \A b \in Acceptors : b # a => acc'[b] = acc[b]
  BY DEF StopListen, TypeOK
<1>4. \A pair \in Pairs :
        table'[pair] = IF pair[2] = acc[a].addr THEN 0 ELSE table[pair]
  BY Zenon DEF StopListen
<1>5. TableExact'
  <2>1. ASSUME NEW pair \in Pairs, table'[pair] # 0
        PROVE  LET t == trp[table[pair]] IN
               /\ table'[pair] = table[pair] /\ table[pair] # 0
               /\ t.acc \in Acceptors /\ t.acc # a
    BY <2>1, <1>4, Numbers DEF TypeOK, TableExact
  <2>2. ASSUME NEW pair \in Pairs, table'[pair] # 0
        PROVE  LET t == trp[table'[pair]] IN
               /\ t.st = "open" /\ t.peer = pair[1] /\ t.acc # 0
               /\ acc'[t.acc].st = "listening" /\ acc'[t.acc].addr = pair[2]
    BY <2>1, <2>2, <1>3 DEF TypeOK, TableExact, Listening
  <2>3. ASSUME NEW t \in Transports, trp[t].st = "open", trp[t].acc # 0,
               acc'[trp[t].acc].st = "listening"
        PROVE  table'[<<trp[t].peer, acc'[trp[t].acc].addr>>] = t
    <3>1. /\ trp[t].acc \in Acceptors /\ trp[t].acc # a /\ trp[t].peer \in Peers
          /\ Listening(trp[t].acc) /\ acc'[trp[t].acc] = acc[trp[t].acc]
      BY <2>3, <1>3, Zenon DEF TypeOK, Listening
    <3>2. acc[trp[t].acc].addr # acc[a].addr /\ acc[trp[t].acc].addr \in Addrs
      BY <3>1, <1>1, Zenon DEF TypeOK, Linked
    <3> QED
      BY <2>3, <3>1, <3>2, <1>4, Numbers DEF TableExact
  <2> QED
    BY <2>2, <2>3, <1>1, Zenon DEF TableExact, Listening
<1>6. SocketKept'
  BY <1>1, <1>3, Owners DEF StopListen, TypeOK, SocketKept, Listening, Linked
<1>7. Linked'
  BY <1>1, <1>3, SMTT(30) DEF TypeOK, Listening, Linked
<1>8. Delivered' /\ EraseFindsEntry'
  BY <1>1, Zenon DEF Delivered, EraseFindsEntry
<1> QED
  BY <1>2, <1>5, <1>6, <1>7, <1>8, Zenon

\* What is said of the sockets, acceptors, transports and table stays true
\* when they stay.
LEMMA Stays ==
  ASSUME IInv, owner' = owner, acc' = acc, trp' = trp, table' = table
  PROVE  TableExact' /\ SocketKept' /\ Linked'
<1> USE DEF IInv
<1>1. \A a : Listening(a)' = Listening(a)
  BY Zenon DEF Listening
<1>2. TableExact'
  BY <1>1, Zenon DEF TableExact
<1>3. SocketKept'
  BY <1>1, Zenon DEF SocketKept
<1>4. Linked'
  BY <1>1, Zenon DEF Linked
<1> QED BY <1>2, <1>3, <1>4, Zenon

\* A datagram goes to the transport in the table, or a new one is entered there.
LEMMA OnEpollInputIInv ==
  ASSUME IInv, NEW a \in Acceptors, NEW p \in Peers, OnEpollInput(a, p)
  PROVE  IInv'
<1> USE DEF IInv
<1> DEFINE pair == <<p, acc[a].addr>>
<1>1. /\ Listening(a) /\ acc[a].fd \in Fds /\ acc[a].addr \in Addrs
      /\ owner[acc[a].fd] = AcceptorOf(a) /\ UNCHANGED <<owner, acc>>
  BY Zenon DEF OnEpollInput, Linked, SocketKept, TypeOK
<1>2. pair \in Pairs /\ pair[1] = p /\ pair[2] = acc[a].addr
  BY <1>1, Numbers, Zenon
<1>3. CASE table[pair] # 0 /\ UNCHANGED <<trp, table>> /\ Received(table[pair])
  <2>1. /\ table[pair] \in Transports /\ trp[table[pair]].st = "open"
        /\ trp[table[pair]].acc = a /\ trp[table[pair]].fd = acc[a].fd
    BY <1>1, <1>2, <1>3, SMTT(30) DEF TypeOK, TableExact, Linked
  <2>2. faults' = faults
    BY <1>1, <1>3, <2>1, Zenon DEF Received
  <2>3. owner' = owner /\ acc' = acc /\ trp' = trp /\ table' = table
    BY <1>1, <1>3, Zenon
  <2>4. TypeOK' /\ Delivered' /\ EraseFindsEntry'
    BY <2>2, <2>3, Zenon DEF TypeOK, Delivered, EraseFindsEntry
  <2> QED
    BY <2>3, <2>4, Stays, Zenon
<1>4. ASSUME NEW t \in FreshTransports, table[pair] = 0,
             trp' = [trp EXCEPT ![t] =
                       [st |-> "open", acc |-> a, peer |-> p, fd |-> acc[a].fd]],
             table' = [table EXCEPT ![pair] = t],
             Received(t)
      PROVE  IInv'
  <2>1. t \in Transports /\ trp[t].st = "new"
    BY Zenon DEF FreshTransports, Lowest
  <2>2. /\ trp'[t].st = "open" /\ trp'[t].acc = a /\ trp'[t].peer = p
        /\ trp'[t].fd = acc[a].fd
        /\ \A u \in Transports : u # t => trp'[u] = trp[u]
    BY <1>4, <2>1 DEF TypeOK
  <2>3. /\ table'[pair] = t
        /\ \A q \in Pairs : q # pair => table'[q] = table[q]
    BY <1>2, <1>4, ZenonT(30) DEF TypeOK
  <2>4. faults' = faults
    BY <1>1, <1>4, <2>2, Zenon DEF Received
  <2>5. TypeOK'
    BY <1>1, <1>2, <1>4, <2>1, <2>4, Zenon DEF TypeOK
  <2>6. TableExact'
    <3>1. ASSUME NEW q \in Pairs, table'[q] # 0
          PROVE  LET u == trp'[table'[q]] IN
                 /\ u.st = "open" /\ u.peer = q[1] /\ u.acc # 0
                 /\ acc[u.acc].st = "listening" /\ acc[u.acc].addr = q[2]
      <4>1. CASE q = pair
        BY <4>1, <1>1, <1>2, <2>2, <2>3, Numbers DEF Listening
      <4>2. CASE q # pair
        <5>1. table'[q] = table[q] /\ table[q] \in Transports /\ table[q] # t
          BY <4>2, <3>1, <2>1, <2>3 DEF TypeOK, TableExact
        <5> QED
          BY <5>1, <3>1, <2>2, SMTT(30) DEF TableExact, Listening
      <4> QED
        BY <4>1, <4>2, Zenon
    <3>2. ASSUME NEW u \in Transports, trp'[u].st = "open", trp'[u].acc # 0,
                 acc[trp'[u].acc].st = "listening"
          PROVE  table'[<<trp'[u].peer, acc[trp'[u].acc].addr>>] = u
      <4>1. CASE u = t
        BY <4>1, <2>2, <2>3, Zenon
      <4>2. CASE u # t
        <5>1. /\ trp'[u] = trp[u] /\ trp[u].peer \in Peers
              /\ acc[trp[u].acc].addr \in Addrs
          BY <4>2, <3>2, <2>2 DEF TypeOK
        <5>2. table[<<trp[u].peer, acc[trp[u].acc].addr>>] = u
          BY <5>1, <3>2 DEF TableExact, Listening
        <5>3. u # 0
          BY Numbers, Zenon
        <5> QED
          BY <5>1, <5>2, <5>3, <1>4, <2>3, Numbers, Zenon
      <4> QED
        BY <4>1, <4>2, Zenon
    <3> QED
      BY <3>1, <3>2, <1>1 DEF TableExact, Listening
  <2>7. SocketKept' /\ Linked'
    BY <1>1, <2>1, <2>2, Numbers DEF SocketKept, Linked, Listening
  <2>8. Delivered' /\ EraseFindsEntry'
    BY <2>4, Zenon DEF Delivered, EraseFindsEntry
  <2> QED
    BY <2>5, <2>6, <2>7, <2>8, Zenon
<1> QED
  BY <1>3, <1>4, Zenon DEF OnEpollInput

\* A function with one value replaced by another of its range.
LEMMA Replaced ==
  ASSUME NEW A, NEW B, NEW f \in [A -> B], NEW a \in A, NEW b \in B
  PROVE  [f EXCEPT ![a] = b] \in [A -> B]
BY Zenon

\* A transport that gives up its descriptor.
LEMMA Left ==
  ASSUME TypeOK, NEW t \in Transports,
         trp' = [trp EXCEPT ![t].st = "left", ![t].fd = 0]
  PROVE  /\ trp' \in [Transports -> [st : {"new", "connecting", "open", "left"},
                                     acc : Acceptors \cup {0}, peer : Peers,
                                     fd : Fds \cup {0}]]
         /\ trp'[t].st = "left"
         /\ \A u \in Transports : u # t => trp'[u] = trp[u]
<1> DEFINE r == [trp[t] EXCEPT !.st = "left", !.fd = 0]
<1>1. trp' = [trp EXCEPT ![t] = r]
  BY Zenon DEF TypeOK
<1>2. trp[t] \in [st : {"new", "connecting", "open", "left"}, acc : Acceptors \cup {0},
                  peer : Peers, fd : Fds \cup {0}]
  BY Zenon DEF TypeOK
<1>3. /\ r \in [st : {"new", "connecting", "open", "left"}, acc : Acceptors \cup {0},
               peer : Peers, fd : Fds \cup {0}]
      /\ r.st = "left"
  BY <1>2, Updates, Zenon
<1> HIDE DEF r
<1>4. trp' \in [Transports -> [st : {"new", "connecting", "open", "left"},
                               acc : Acceptors \cup {0}, peer : Peers,
                               fd : Fds \cup {0}]]
  <2>1. PICK R : R = [st : {"new", "connecting", "open", "left"}, acc : Acceptors \cup {0},
                      peer : Peers, fd : Fds \cup {0}]
    BY Zenon
  <2>2. trp \in [Transports -> R] /\ r \in R
    BY <1>3, <2>1, Zenon DEF TypeOK
  <2> QED
    <3>1. [trp EXCEPT ![t] = r] \in [Transports -> R]
      BY <2>2, Replaced
    <3> QED BY <1>1, <2>1, <3>1, Zenon
<1>5. trp'[t] = r /\ \A u \in Transports : u # t => trp'[u] = trp[u]
  BY <1>1, Zenon DEF TypeOK
<1> QED
  BY <1>3, <1>4, <1>5, Zenon

\* The table stays exact when a transport changes that is not in it and does
\* not belong there: it leaves, or it has no acceptor.
LEMMA TableStays ==
  ASSUME TableExact, UNCHANGED <<acc, table>>, NEW t \in Transports,
         trp'[t].st = "left" \/ trp'[t].acc = 0,
         \A u \in Transports : u # t => trp'[u] = trp[u],
         \A q \in Pairs : table[q] # 0 => table[q] \in Transports /\ table[q] # t
  PROVE  TableExact'
<1>1. ASSUME NEW q \in Pairs, table[q] # 0
      PROVE  /\ trp'[table[q]].st = "open" /\ trp'[table[q]].peer = q[1]
             /\ trp'[table[q]].acc # 0 /\ Listening(trp'[table[q]].acc)
             /\ acc[trp'[table[q]].acc].addr = q[2]
  <2>1. PICK u : u = table[q]
    BY Zenon
  <2>2. trp'[u] = trp[u]
    BY <1>1, <2>1, Zenon
  <2>3. /\ trp[u].st = "open" /\ trp[u].peer = q[1] /\ trp[u].acc # 0
        /\ Listening(trp[u].acc) /\ acc[trp[u].acc].addr = q[2]
    BY <1>1, <2>1, Zenon DEF TableExact
  <2> QED
    BY <2>1, <2>2, <2>3, Zenon
<1>2. ASSUME NEW u \in Transports, trp'[u].st = "open", trp'[u].acc # 0,
             Listening(trp'[u].acc)
      PROVE  table[<<trp'[u].peer, acc[trp'[u].acc].addr>>] = u
  <2>1. u # t
    BY <1>2, Zenon
  <2>2. trp'[u] = trp[u]
    BY <2>1, Zenon
  <2> QED
    BY <1>2, <2>2, Zenon DEF TableExact
<1> QED
  BY <1>1, <1>2, Zenon DEF TableExact, Listening

\* A transport with a socket of its own closes it: Disconnect_t and Close.
LEMMA CloseOwn ==
  ASSUME IInv, NEW t \in Transports,
         trp[t].st \in {"connecting", "open"}, trp[t].acc = 0,
         trp' = [trp EXCEPT ![t].st = "left", ![t].fd = 0],
         owner' = [owner EXCEPT ![trp[t].fd] = Nobody],
         UNCHANGED <<acc, table, faults>>
  PROVE  IInv'
<1> USE DEF IInv
<1>1. /\ trp' \in [Transports -> [st : {"new", "connecting", "open", "left"},
                                  acc : Acceptors \cup {0}, peer : Peers,
                                  fd : Fds \cup {0}]]
      /\ trp'[t].st = "left"
      /\ \A u \in Transports : u # t => trp'[u] = trp[u]
  BY Left, Zenon
<1>2. trp[t].fd \in Fds /\ owner[trp[t].fd] = TransportOf(t)
  BY Zenon DEF Linked, SocketKept
<1>3. TypeOK'
  <2>1. owner' \in [Fds -> {Nobody} \cup {AcceptorOf(b) : b \in Acceptors}
                            \cup {TransportOf(u) : u \in Transports}]
    BY Zenon DEF TypeOK
  <2> QED
    BY <1>1, <2>1, Zenon DEF TypeOK
<1>4. TableExact'
  <2>1. \A pair \in Pairs : table[pair] # 0 =>
          table[pair] \in Transports /\ table[pair] # t
    BY DEF TypeOK, TableExact
  <2> QED
    BY <1>1, <2>1, TableStays, Zenon
<1>5. SocketKept'
  BY <1>1, <1>2, Owners DEF TypeOK, SocketKept, Linked, Listening
<1>6. Linked'
  BY <1>1, SMTT(30) DEF Linked, Listening
<1>7. Delivered' /\ EraseFindsEntry'
  BY Zenon DEF Delivered, EraseFindsEntry
<1> QED
  BY <1>3, <1>4, <1>5, <1>6, <1>7, Zenon

\* A transport that ends leaves the table, or closes the socket it owns.
LEMMA Disconnect_tIInv ==
  ASSUME IInv, NEW t \in Transports, Disconnect_t(t)
  PROVE  IInv'
<1> USE DEF IInv
<1>1. CASE trp[t].acc = 0
  BY <1>1, CloseOwn, Zenon DEF Disconnect_t
<1>2. CASE trp[t].acc # 0
  <2> DEFINE a == trp[t].acc
             pair == <<trp[t].peer, acc[a].addr>>
  <2>1. /\ trp[t].st = "open" /\ UNCHANGED <<owner, acc>> /\ RemoveTransport(t)
        /\ trp' = [trp EXCEPT ![t].st = "left", ![t].fd = 0]
    BY <1>2, Zenon DEF Disconnect_t
  <2>2. /\ trp' \in [Transports -> [st : {"new", "connecting", "open", "left"},
                                    acc : Acceptors \cup {0}, peer : Peers,
                                    fd : Fds \cup {0}]]
        /\ trp'[t].st = "left"
        /\ \A u \in Transports : u # t => trp'[u] = trp[u]
    BY <2>1, Left, ZenonT(30)
  <2>3. a \in Acceptors /\ pair \in Pairs
    BY <1>2, Numbers DEF TypeOK
  <2>4. SocketKept' /\ Linked'
    <3>1. owner' = owner /\ acc' = acc
      BY <2>1, Zenon
    <3>2. \A u \in Transports : trp'[u].st \in {"connecting", "open"} => trp'[u] = trp[u]
      BY <2>2, Zenon
    <3>3. \A b : Listening(b)' = Listening(b)
      BY <3>1, Zenon DEF Listening
    <3>4. SocketKept'
      BY <3>1, <3>2, <3>3, Zenon DEF SocketKept
    <3>5. Linked'
      <4>1. ASSUME NEW u \in Transports, trp'[u].st \in {"connecting", "open"}
            PROVE  /\ trp'[u].st = "open" /\ trp'[u].acc # 0 =>
                        /\ acc[trp'[u].acc].st # "new"
                        /\ Listening(trp'[u].acc) => trp'[u].fd = acc[trp'[u].acc].fd
                   /\ trp'[u].fd \in Fds
                   /\ trp'[u].st = "connecting" => trp'[u].acc = 0
        BY <3>2, <4>1, Zenon DEF Linked
      <4> QED BY <3>1, <3>3, <4>1, Zenon DEF Linked
    <3> QED BY <3>4, <3>5, Zenon
  <2>5. CASE ~Listening(a)
    <3>1. UNCHANGED <<table, faults>>
      BY <2>1, <2>5 DEF RemoveTransport
    <3>2. \A q \in Pairs : table[q] # 0 =>
            table[q] \in Transports /\ table[q] # t
      BY <2>5 DEF TypeOK, TableExact
    <3>3. TableExact'
      BY <2>1, <2>2, <3>1, <3>2, TableStays, Zenon
    <3>4. TypeOK' /\ Delivered' /\ EraseFindsEntry'
      BY <2>1, <2>2, <3>1, Zenon DEF TypeOK, Delivered, EraseFindsEntry
    <3> QED
      BY <2>4, <3>3, <3>4, Zenon
  <2>6. CASE Listening(a)
    <3>1. table[pair] = t
      BY <1>2, <2>1, <2>6, Zenon DEF TableExact
    <3>2. table' = [table EXCEPT ![pair] = 0] /\ faults' = faults
      BY <2>1, <2>6, <3>1, Numbers, Zenon DEF RemoveTransport
    <3>3. /\ table'[pair] = 0
          /\ \A q \in Pairs : q # pair => table'[q] = table[q]
      BY <2>3, <3>2, Zenon DEF TypeOK
    <3>4. TypeOK' /\ Delivered' /\ EraseFindsEntry'
      <4>1. table' \in [Pairs -> Transports \cup {0}]
        BY <3>2, ZenonT(30) DEF TypeOK
      <4> QED
        BY <2>1, <2>2, <3>2, <4>1, Zenon DEF TypeOK, Delivered, EraseFindsEntry
    <3>5. TableExact'
      <4>1. ASSUME NEW q \in Pairs, table'[q] # 0
            PROVE  LET u == trp'[table'[q]] IN
                   /\ u.st = "open" /\ u.peer = q[1] /\ u.acc # 0
                   /\ acc[u.acc].st = "listening" /\ acc[u.acc].addr = q[2]
        <5>1. q # pair /\ table'[q] = table[q] /\ table[q] \in Transports
          BY <4>1, <3>3, Zenon DEF TypeOK
        <5>2. table[q] # t
          BY <4>1, <5>1, <2>3, Numbers DEF TableExact
        <5> QED
          <6>1. PICK u : u = table[q]
            BY Zenon
          <6>2. /\ trp[u].st = "open" /\ trp[u].peer = q[1] /\ trp[u].acc # 0
                /\ Listening(trp[u].acc) /\ acc[trp[u].acc].addr = q[2]
            BY <4>1, <5>1, <6>1, Zenon DEF TableExact
          <6>3. trp'[u] = trp[u] /\ table'[q] = u
            BY <2>2, <5>1, <5>2, <6>1, Zenon
          <6> QED BY <6>2, <6>3, Zenon DEF Listening
      <4>2. ASSUME NEW u \in Transports, trp'[u].st = "open", trp'[u].acc # 0,
                   acc[trp'[u].acc].st = "listening"
            PROVE  table'[<<trp'[u].peer, acc[trp'[u].acc].addr>>] = u
        <5>1. /\ u # t /\ trp'[u] = trp[u] /\ trp[u].peer \in Peers
              /\ acc[trp[u].acc].addr \in Addrs
          BY <4>2, <2>2, Zenon DEF TypeOK
        <5>2. table[<<trp[u].peer, acc[trp[u].acc].addr>>] = u
          BY <4>2, <5>1 DEF TableExact, Listening
        <5> QED
          BY <5>1, <5>2, <3>1, <3>3, Numbers, Zenon
      <4>3. acc' = acc
        BY <2>1, Zenon
      <4> QED
        BY <4>1, <4>2, <4>3 DEF TableExact, Listening
    <3> QED
      BY <2>4, <3>4, <3>5, Zenon
  <2> QED
    BY <2>5, <2>6, Zenon
<1> QED
  BY <1>1, <1>2, Zenon

\* A connected transport owns its socket and is in no table.
LEMMA ConnectIInv ==
  ASSUME IInv, NEW p \in Peers, Connect(p)
  PROVE  IInv'
<1> USE DEF IInv
<1>1. PICK t \in FreshTransports, f \in FreeFds :
        /\ trp' = [trp EXCEPT ![t] =
                     [st |-> "connecting", acc |-> 0, peer |-> p, fd |-> f]]
        /\ owner' = [owner EXCEPT ![f] = TransportOf(t)]
  BY Zenon DEF Connect
<1>2. /\ t \in Transports /\ trp[t].st = "new" /\ f \in Fds /\ owner[f] = Nobody
      /\ UNCHANGED <<acc, table, faults>>
  BY Zenon DEF Connect, FreshTransports, FreeFds, Lowest
<1>3. TypeOK'
  BY <1>1, <1>2, ZenonT(30) DEF TypeOK
<1>4. /\ trp'[t].st = "connecting" /\ trp'[t].acc = 0 /\ trp'[t].fd = f
      /\ \A u \in Transports : u # t => trp'[u] = trp[u]
  BY <1>1, <1>2 DEF TypeOK
<1>5. TableExact'
  <2>1. \A pair \in Pairs : table[pair] # 0 =>
          table[pair] \in Transports /\ table[pair] # t
    BY <1>2 DEF TypeOK, TableExact
  <2> QED
    BY <1>2, <1>4, <2>1, TableStays, Zenon
<1>6. SocketKept'
  BY <1>1, <1>2, <1>4, Owners, SMTT(30) DEF TypeOK, SocketKept, Linked, Listening
<1>7. Linked'
  BY <1>2, <1>4 DEF Linked, Listening
<1>8. Delivered' /\ EraseFindsEntry'
  BY <1>2, Zenon DEF Delivered, EraseFindsEntry
<1> QED
  BY <1>3, <1>5, <1>6, <1>7, <1>8, Zenon

\* The timer of a connect opens the transport on the socket it owns.
LEMMA OnTimeoutIInv ==
  ASSUME IInv, NEW t \in Transports, OnTimeout(t)
  PROVE  IInv'
<1> USE DEF IInv
<1>1. trp[t].st = "connecting" /\ UNCHANGED <<owner, acc, table, faults>>
  BY Zenon DEF OnTimeout
<1>2. /\ trp'[t].st = "open" /\ trp'[t].acc = trp[t].acc /\ trp'[t].fd = trp[t].fd
      /\ \A u \in Transports : u # t => trp'[u] = trp[u]
  BY DEF OnTimeout, TypeOK
<1>3. TypeOK'
  <2> DEFINE r == [trp[t] EXCEPT !.st = "open"]
  <2>1. trp' = [trp EXCEPT ![t] = r]
    BY Zenon DEF OnTimeout, TypeOK
  <2>2. trp[t] \in [st : {"new", "connecting", "open", "left"},
                    acc : Acceptors \cup {0}, peer : Peers, fd : Fds \cup {0}]
    BY Zenon DEF TypeOK
  <2>3. r \in [st : {"new", "connecting", "open", "left"},
               acc : Acceptors \cup {0}, peer : Peers, fd : Fds \cup {0}]
    BY <2>2, Updates, ZenonT(30)
  <2> HIDE DEF r
  <2>4. trp' \in [Transports -> [st : {"new", "connecting", "open", "left"},
                                 acc : Acceptors \cup {0}, peer : Peers,
                                 fd : Fds \cup {0}]]
    BY <2>1, <2>3, Zenon DEF TypeOK
  <2> QED
    BY <1>1, <2>4, Zenon DEF TypeOK
<1>4. TableExact'
  <2>1. \A pair \in Pairs : table[pair] # 0 =>
          table[pair] \in Transports /\ table[pair] # t
    BY <1>1 DEF TypeOK, TableExact
  <2>2. trp[t].acc = 0
    BY <1>1, Zenon DEF Linked
  <2>3. trp'[t].acc = 0
    BY <1>2, <2>2, Zenon
  <2> QED
    BY <1>1, <1>2, <2>1, <2>3, TableStays, Zenon
<1>5. SocketKept' /\ Linked'
  BY <1>1, <1>2, SMTT(30) DEF SocketKept, Linked, Listening
<1>6. Delivered' /\ EraseFindsEntry'
  BY <1>1, Zenon DEF Delivered, EraseFindsEntry
<1> QED
  BY <1>3, <1>4, <1>5, <1>6, Zenon

\* A cancelled connect closes the socket of its transport.
LEMMA CloseIInv ==
  ASSUME IInv, NEW t \in Transports, Close(t)
  PROVE  IInv'
<1>1. trp[t].acc = 0
  BY Zenon DEF IInv, Linked, Close
<1> QED
  BY <1>1, CloseOwn, Zenon DEF Close

\* SendData changes neither the table nor the sockets.
LEMMA SendDataIInv ==
  ASSUME IInv, NEW t \in Transports, SendData(t)
  PROVE  IInv'
<1> USE DEF IInv
<1>1. UNCHANGED <<owner, acc, trp, table>> /\ faults' \subseteq faults \cup {"SentAfterStop"}
  BY SMTT(30) DEF SendData
<1>2. TypeOK' /\ TableExact' /\ SocketKept' /\ Linked'
  <2>1. owner' = owner /\ acc' = acc /\ trp' = trp /\ table' = table
    BY <1>1, Zenon
  <2>2. faults' \subseteq {"Misdelivered", "NotErased", "SentAfterStop"}
    BY <1>1, Zenon DEF TypeOK
  <2>3. TypeOK'
    BY <2>1, <2>2, Zenon DEF TypeOK
  <2> QED
    BY <2>1, <2>3, Stays, Zenon
<1>3. Delivered' /\ EraseFindsEntry'
  BY <1>1, SMTT(30) DEF Delivered, EraseFindsEntry
<1> QED
  BY <1>2, <1>3, Zenon

\* Nor does a step that changes nothing.
LEMMA StutterIInv == IInv /\ UNCHANGED vars => IInv'
<1> SUFFICES ASSUME IInv, UNCHANGED vars PROVE IInv'
  BY Zenon
<1>1. /\ owner' = owner /\ acc' = acc /\ trp' = trp /\ table' = table
      /\ faults' = faults
  BY Zenon DEF vars
<1>2. TypeOK' /\ Delivered' /\ EraseFindsEntry'
  BY <1>1, Zenon DEF IInv, TypeOK, Delivered, EraseFindsEntry
<1> QED
  BY <1>1, <1>2, Stays, Zenon DEF IInv

\* The inductive invariant holds in every state of UDP on the network thread.
THEOREM Invariance == Spec => []IInv
<1>1. Init => IInv
  BY InitIInv, Zenon
<1>2. IInv /\ [Next]_vars => IInv'
  BY StartListenIInv, StopListenIInv, OnEpollInputIInv, Disconnect_tIInv,
     SendDataIInv, OnTimeoutIInv, CloseIInv, ConnectIInv, StutterIInv DEF Next
<1> QED
  BY <1>1, <1>2, PTL DEF Spec

\* Type correctness of the acceptors, transports and their table.
THEOREM TypeCorrect == Spec => []TypeOK
<1>1. IInv => TypeOK
  BY Zenon DEF IInv
<1> QED
  BY <1>1, Invariance, PTL

\* s_pfsUdpTransports holds exactly the open transports of the listening
\* acceptors, whatever is stopped, listened on again and disconnected.
THEOREM TableIsExact == Spec => []TableExact
<1>1. IInv => TableExact
  BY Zenon DEF IInv
<1> QED
  BY <1>1, Invariance, PTL

\* A socket stays with the acceptor or the connected transport that opened
\* it: Disconnect_t and Close_t of the others never close it.
THEOREM SocketIsKept == Spec => []SocketKept
<1>1. IInv => SocketKept
  BY Zenon DEF IInv
<1> QED
  BY <1>1, Invariance, PTL

\* OnEpollInput of an acceptor hands every datagram to an open transport of
\* that acceptor, and RemoveTransport finds the entry it erases.
THEOREM AssertionsHold == Spec => []AssertionsKept
<1>1. IInv => AssertionsKept
  BY Zenon DEF IInv, AssertionsKept
<1> QED
  BY <1>1, Invariance, PTL
=============================================================================
