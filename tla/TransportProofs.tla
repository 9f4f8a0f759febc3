-------------------------- MODULE TransportProofs --------------------------
(***************************************************************************)
(* Proofs about TransportProxy, for messages and sockets of any size and   *)
(* any number of bytes and chunks: when the stream is called back, that it *)
(* has all the data when it is told of the end, what m_bIsBufferFull says, *)
(* that the proxy is deleted once, and that no byte is lost, duplicated or *)
(* overtaken on its way to the socket.                                     *)
(***************************************************************************)
EXTENDS TransportProxy, TLAPS

NetEvent == {"SendData", "Disconnect", "Delete"} \X Seq(Nat)

NetPoints == {"idle", "SendData", "OnSend", "recv", "OnReceive", "OnDisconnect"}

\* The way of the bytes.
SendType ==
  /\ produced \in Nat
  /\ m_pMbSendBuf \in Seq(Nat) /\ m_SendBuffer \in Seq(Nat)
  /\ netQ \in Seq(NetEvent)

\* The socket never holds more than its buffer.
SockType ==
  /\ sock \in [wire : Seq(Nat), taken : Nat, sent : Nat, read : Nat,
               fin : BOOLEAN, err : BOOLEAN, inEdge : BOOLEAN, outEdge : BOOLEAN]
  /\ sock.taken <= Len(sock.wire)
  /\ Len(sock.wire) - sock.taken <= SocketBuffer

FlagType ==
  /\ m_bStoppedFlag \in BOOLEAN /\ m_pSinkActual \in BOOLEAN
  /\ m_pTransport \in BOOLEAN
  /\ m_bIsBufferFull \in BOOLEAN /\ m_bPartialDataLastTime \in BOOLEAN
  /\ netpc \in NetPoints
  /\ trpt \in [fd : BOOLEAN, sink : BOOLEAN, needOnSend : BOOLEAN, reg : BOOLEAN]

\* The flags between the two writes of Send_i and outside of it.
InSend == netpc \in {"SendData", "OnSend"}

FullInv ==
  /\ m_SendBuffer = <<>> => ~m_bIsBufferFull
  /\ ~InSend /\ m_SendBuffer # <<>> => m_bIsBufferFull
  /\ m_SendBuffer # <<>> /\ m_bPartialDataLastTime /\ ~m_bStoppedFlag => trpt.needOnSend

\* A proxy with a sink that is not stopped belongs to a stream.
SinkInv == m_pSinkActual /\ ~m_bStoppedFlag => m_pTransport

SendInv == SendType /\ SockType /\ FlagType /\ FullInv /\ SinkInv

\* The empty sequence.
LEMMA EmptySeq == ASSUME NEW S PROVE <<>> \in Seq(S) /\ Len(<<>>) = 0
OBVIOUS

\* A function on 1..n is a sequence.
LEMMA ListIsSeq ==
  ASSUME NEW S, NEW n \in Nat, NEW f \in [1..n -> S]
  PROVE  f \in Seq(S)
OBVIOUS

\* A sequence with one element replaced.
LEMMA ReplacedIn ==
  ASSUME NEW S, NEW s \in Seq(S), NEW i \in 1..Len(s), NEW e \in S
  PROVE  [s EXCEPT ![i] = e] \in Seq(S)
<1>1. s \in [1..Len(s) -> S] /\ Len(s) \in Nat
  OBVIOUS
<1>2. [s EXCEPT ![i] = e] \in [1..Len(s) -> S]
  BY <1>1, Zenon
<1> QED
  BY <1>1, <1>2, ListIsSeq

\* A sequence with an element appended is not empty.
LEMMA AppendedTo ==
  ASSUME NEW S, NEW s \in Seq(S), NEW e \in S
  PROVE  Append(s, e) # <<>>
<1>1. Len(Append(s, e)) = Len(s) + 1 /\ Len(s) \in Nat
  OBVIOUS
<1>2. PICK t : t = Append(s, e)
  BY Zenon
<1>3. Len(t) # 0
  BY <1>1, <1>2
<1>4. Len(<<>>) = 0
  BY EmptySeq
<1> QED
  BY <1>2, <1>3, <1>4, Zenon

\* The sizes are numbers.
LEMMA Sizes == SocketBuffer \in Nat /\ MessageSize \in Nat
BY SizesAssumption, Zenon

-----------------------------------------------------------------------------
(* Sequences *)

\* A sequence cut in two.
LEMMA CutOff ==
  ASSUME NEW s \in Seq(Nat), NEW n \in 0..Len(s)
  PROVE  /\ SubSeq(s, 1, n) \in Seq(Nat) /\ Len(SubSeq(s, 1, n)) = n
         /\ SubSeq(s, n + 1, Len(s)) \in Seq(Nat)
         /\ SubSeq(s, n + 1, Len(s)) = <<>> <=> n = Len(s)
<1>1. SubSeq(s, 1, n) \in Seq(Nat) /\ Len(SubSeq(s, 1, n)) = n
  OBVIOUS
<1>2. SubSeq(s, n + 1, Len(s)) \in Seq(Nat) /\ Len(SubSeq(s, n + 1, Len(s))) = Len(s) - n
  OBVIOUS
<1>3. \A t \in Seq(Nat) : t = <<>> <=> Len(t) = 0
  OBVIOUS
<1>4. Len(s) - n = 0 <=> n = Len(s)
  OBVIOUS
<1> QED
  BY <1>1, <1>2, <1>3, <1>4, Zenon

\* A sequence appended to another.
LEMMA Joined ==
  ASSUME NEW s \in Seq(Nat), NEW t \in Seq(Nat)
  PROVE  /\ s \o t \in Seq(Nat) /\ Len(s \o t) = Len(s) + Len(t)
         /\ Len(s) \in Nat /\ (s = <<>> <=> Len(s) = 0)
OBVIOUS

\* The network queue and its first event.
LEMMA NetQueue ==
  ASSUME netQ \in Seq(NetEvent)
  PROVE  /\ netQ # <<>> =>
              /\ Tail(netQ) \in Seq(NetEvent)
              /\ Head(netQ)[2] \in Seq(Nat)
              /\ [netQ EXCEPT ![1] = <<"SendData", <<>>>>] \in Seq(NetEvent)
         /\ \A d \in Seq(Nat), t \in {"SendData", "Disconnect", "Delete"} :
              Append(netQ, <<t, d>>) \in Seq(NetEvent)
<1>1. <<"SendData", <<>>>> \in NetEvent
  <2>1. <<>> \in Seq(Nat)
    BY EmptySeq, Zenon
  <2> QED
    BY <2>1, Zenon DEF NetEvent
<1>2. ASSUME netQ # <<>>
      PROVE  /\ Tail(netQ) \in Seq(NetEvent) /\ Head(netQ) \in NetEvent
             /\ [netQ EXCEPT ![1] = <<"SendData", <<>>>>] \in Seq(NetEvent)
  <2>1. 1 \in 1..Len(netQ) /\ Tail(netQ) \in Seq(NetEvent) /\ Head(netQ) \in NetEvent
    BY <1>2
  <2>2. [netQ EXCEPT ![1] = <<"SendData", <<>>>>] \in Seq(NetEvent)
    BY <1>1, <2>1, ReplacedIn, Zenon
  <2> QED
    BY <2>1, <2>2, Zenon
<1>3. \A d \in Seq(Nat), t \in {"SendData", "Disconnect", "Delete"} : <<t, d>> \in NetEvent
  BY Zenon DEF NetEvent
<1>4. \A e \in NetEvent : e[2] \in Seq(Nat)
  BY Zenon DEF NetEvent
<1> QED
  BY <1>2, <1>3, <1>4

-----------------------------------------------------------------------------
(* Steps *)

\* The stop flag is never taken back.
LEMMA Released ==
  ASSUME NEW th, NEW stopped \in BOOLEAN, ReleaseReference(th, stopped)
  PROVE  m_bStoppedFlag' \in BOOLEAN /\ (stopped => m_bStoppedFlag')
BY Zenon DEF ReleaseReference

\* What the socket takes is a beginning of the bytes and fits.
LEMMA WriteSends ==
  ASSUME SendInv, NEW todo \in Seq(Nat), NEW s, NEW t, Write(todo, s, t),
         s = sock \/ s = [sock EXCEPT !.outEdge = FALSE],
         t = trpt \/ t = [trpt EXCEPT !.needOnSend = FALSE]
  PROVE  /\ SockType' /\ m_SendBuffer' \in Seq(Nat)
         /\ sock'.sent = sock.sent /\ sock'.read = sock.read
         /\ sock'.err = sock.err /\ sock'.fin = sock.fin
         /\ trpt' \in [fd : BOOLEAN, sink : BOOLEAN, needOnSend : BOOLEAN, reg : BOOLEAN]
         /\ trpt'.fd = trpt.fd /\ trpt'.reg = trpt.reg
         /\ m_SendBuffer' = <<>> <=> Fits(todo) = Len(todo)
         /\ m_SendBuffer' # <<>> /\ Writable => trpt'.needOnSend
<1> DEFINE n == Fits(todo)
<1>1. Room \in Nat
  BY Sizes DEF SendInv, SockType, Room
<1>2. n \in 0..Len(todo) /\ n <= Room
  BY <1>1 DEF Fits
<1>3. /\ s.wire = sock.wire /\ s.taken = sock.taken /\ s.sent = sock.sent
      /\ s.read = sock.read /\ s.err = sock.err /\ s.fin = sock.fin
      /\ s \in [wire : Seq(Nat), taken : Nat, sent : Nat, read : Nat,
                fin : BOOLEAN, err : BOOLEAN, inEdge : BOOLEAN, outEdge : BOOLEAN]
  BY Zenon DEF SendInv, SockType
<1>4. /\ t \in [fd : BOOLEAN, sink : BOOLEAN, needOnSend : BOOLEAN, reg : BOOLEAN]
      /\ t.fd = trpt.fd /\ t.reg = trpt.reg
  BY Zenon DEF SendInv, FlagType
<1>5. /\ sock' = [s EXCEPT !.wire = @ \o SubSeq(todo, 1, n)]
      /\ m_SendBuffer' = SubSeq(todo, n + 1, Len(todo))
      /\ trpt' = [t EXCEPT !.needOnSend = @ \/ (Writable /\ n < Len(todo))]
  BY Zenon DEF Write
<1> HIDE DEF n
<1>6. /\ SubSeq(todo, 1, n) \in Seq(Nat) /\ Len(SubSeq(todo, 1, n)) = n
      /\ SubSeq(todo, n + 1, Len(todo)) \in Seq(Nat)
      /\ SubSeq(todo, n + 1, Len(todo)) = <<>> <=> n = Len(todo)
  BY <1>2, CutOff, Zenon
<1>7. /\ sock.wire \o SubSeq(todo, 1, n) \in Seq(Nat)
      /\ Len(sock.wire \o SubSeq(todo, 1, n)) = Len(sock.wire) + n
  <2>1. sock.wire \in Seq(Nat)
    BY Zenon DEF SendInv, SockType
  <2>2. \A u \in Seq(Nat) : sock.wire \o u \in Seq(Nat) /\ Len(sock.wire \o u) = Len(sock.wire) + Len(u)
    BY <2>1, Joined, Zenon
  <2> QED
    BY <1>6, <2>2, Zenon
<1>8. SockType'
  <2>1. PICK w \in Seq(Nat) : w = sock.wire \o SubSeq(todo, 1, n) /\ Len(w) = Len(sock.wire) + n
    BY <1>7, Zenon
  <2>2. sock' = [s EXCEPT !.wire = w]
    BY <1>3, <1>5, <2>1, Zenon
  <2>3. sock' \in [wire : Seq(Nat), taken : Nat, sent : Nat, read : Nat,
                   fin : BOOLEAN, err : BOOLEAN, inEdge : BOOLEAN, outEdge : BOOLEAN]
    BY <1>3, <2>2, Zenon
  <2>4. sock'.taken = sock.taken /\ sock'.wire = w
    BY <1>3, <2>2, Zenon
  <2>5. /\ sock.taken \in Nat /\ Len(sock.wire) \in Nat /\ sock.taken <= Len(sock.wire)
        /\ n \in Nat /\ n <= SocketBuffer - (Len(sock.wire) - sock.taken)
    BY <1>2, Sizes DEF SendInv, SockType, Room
  <2>6. sock'.taken <= Len(sock'.wire) /\ Len(sock'.wire) - sock'.taken <= SocketBuffer
    BY <2>1, <2>4, <2>5, Sizes
  <2> QED
    BY <2>3, <2>6, Zenon DEF SockType
<1>9. trpt' \in [fd : BOOLEAN, sink : BOOLEAN, needOnSend : BOOLEAN, reg : BOOLEAN]
  BY <1>4, <1>5, Zenon
<1>10. n # Len(todo) /\ Writable => trpt'.needOnSend
  <2>1. n # Len(todo) => n < Len(todo)
    BY <1>2
  <2>2. trpt'.needOnSend = (t.needOnSend \/ (Writable /\ n < Len(todo)))
    BY <1>4, <1>5, Zenon
  <2> QED
    BY <2>1, <2>2, Zenon
<1>11. n = Fits(todo)
  BY Zenon DEF n
<1> QED
  BY <1>3, <1>4, <1>5, <1>6, <1>8, <1>9, <1>10, <1>11, Zenon

-----------------------------------------------------------------------------
(* The queue of the user thread *)

UserEv ==
  {"OnConnectIndication", "OnSend", "OnReceive", "OnDisconnect"} \X Nat

IsChunk(e) == e[1] = "OnReceive"

Has(q, type) == \E i \in 1..Len(q) : q[i][1] = type

\* The chunks in q are k + 1 to n, in this order.
InOrder(q, k, n) ==
  /\ \A i \in 1..Len(q) : IsChunk(q[i]) => k < q[i][2] /\ q[i][2] <= n
  /\ \A i, j \in 1..Len(q) :
       i < j /\ IsChunk(q[i]) /\ IsChunk(q[j]) => q[i][2] < q[j][2]
  /\ \A c \in Nat : k < c /\ c <= n =>
       \E i \in 1..Len(q) : IsChunk(q[i]) /\ q[i][2] = c

\* The indication comes first and no chunk behind the disconnect.
WellFormed(q) ==
  /\ q \in Seq(UserEv)
  /\ \A i \in 1..Len(q) : q[i][1] = "OnConnectIndication" => i = 1
  /\ \A i, j \in 1..Len(q) : i < j /\ q[i][1] = "OnDisconnect" => ~IsChunk(q[j])

\* What is behind the head of a queue.
LEMMA TailOf ==
  ASSUME NEW q \in Seq(UserEv), q # <<>>
  PROVE  /\ Tail(q) \in Seq(UserEv) /\ Len(Tail(q)) = Len(q) - 1
         /\ Len(q) \in Nat /\ Len(q) >= 1
         /\ \A i \in 1..Len(Tail(q)) : i + 1 \in 1..Len(q) /\ Tail(q)[i] = q[i + 1]
         /\ \A i \in 1..Len(q) : i # 1 => i - 1 \in 1..Len(Tail(q)) /\ q[i] = Tail(q)[i - 1]
         /\ Head(q) = q[1]
OBVIOUS

\* A longer queue.
LEMMA AppendOf ==
  ASSUME NEW q \in Seq(UserEv), NEW e \in UserEv
  PROVE  /\ Append(q, e) \in Seq(UserEv) /\ Len(Append(q, e)) = Len(q) + 1
         /\ Len(q) \in Nat
         /\ \A i \in 1..Len(q) : i \in 1..Len(Append(q, e)) /\ Append(q, e)[i] = q[i]
         /\ Append(q, e)[Len(q) + 1] = e
         /\ \A i \in 1..Len(Append(q, e)) : i # Len(q) + 1 => i \in 1..Len(q)
OBVIOUS

\* Events have a type and a number.
LEMMA EventFacts ==
  ASSUME NEW q \in Seq(UserEv)
  PROVE  \A i \in 1..Len(q) : q[i] \in UserEv /\ q[i][2] \in Nat
<1>1. \A i \in 1..Len(q) : q[i] \in UserEv
  OBVIOUS
<1>2. \A e \in UserEv : e[2] \in Nat
  BY Zenon DEF UserEv
<1> QED
  BY <1>1, <1>2, Zenon

\* An event leaves a well-formed queue.
LEMMA TakeWellFormed ==
  ASSUME NEW q, WellFormed(q), q # <<>>
  PROVE  /\ WellFormed(Tail(q))
         /\ ~Has(Tail(q), "OnConnectIndication")
         /\ Has(Tail(q), "OnDisconnect") => Has(q, "OnDisconnect")
         /\ Head(q)[1] = "OnDisconnect" =>
              Has(q, "OnDisconnect") /\ \A i \in 1..Len(q) : ~IsChunk(q[i])
<1>1. q \in Seq(UserEv)
  BY Zenon DEF WellFormed
<1>2. PICK r : r = Tail(q)
  BY Zenon
<1>3. /\ r \in Seq(UserEv) /\ Len(r) = Len(q) - 1 /\ Len(q) \in Nat /\ Len(q) >= 1
      /\ \A i \in 1..Len(r) : i + 1 \in 1..Len(q) /\ r[i] = q[i + 1]
      /\ Head(q) = q[1]
  BY <1>1, <1>2, TailOf, Zenon
<1>4. \A i \in 1..Len(r) : r[i][1] # "OnConnectIndication"
  BY <1>3 DEF WellFormed
<1>5. WellFormed(r)
  <2>1. ASSUME NEW i \in 1..Len(r), NEW j \in 1..Len(r), i < j, r[i][1] = "OnDisconnect"
        PROVE  ~IsChunk(r[j])
    <3>1. i + 1 \in 1..Len(q) /\ j + 1 \in 1..Len(q) /\ i + 1 < j + 1
      BY <1>3, <2>1
    <3>2. q[i + 1][1] = "OnDisconnect" /\ r[j] = q[j + 1]
      BY <1>3, <2>1, Zenon
    <3> QED
      BY <3>1, <3>2, Zenon DEF WellFormed
  <2> QED
    BY <1>3, <1>4, <2>1, Zenon DEF WellFormed
<1>6. Has(r, "OnDisconnect") => Has(q, "OnDisconnect")
  BY <1>3, Zenon DEF Has
<1>7. ASSUME q[1][1] = "OnDisconnect"
      PROVE  Has(q, "OnDisconnect") /\ \A i \in 1..Len(q) : ~IsChunk(q[i])
  BY <1>3, <1>7 DEF WellFormed, Has, IsChunk
<1> QED
  BY <1>2, <1>3, <1>4, <1>5, <1>6, <1>7, Zenon DEF Has

\* An event other than a chunk leaves the queue.
LEMMA TakeOther ==
  ASSUME NEW q \in Seq(UserEv), q # <<>>, NEW k \in Nat, NEW n \in Nat,
         InOrder(q, k, n), ~IsChunk(Head(q))
  PROVE  InOrder(Tail(q), k, n)
<1>1. PICK r : r = Tail(q)
  BY Zenon
<1>2. /\ Len(r) = Len(q) - 1 /\ Len(q) \in Nat
      /\ \A i \in 1..Len(r) : i + 1 \in 1..Len(q) /\ r[i] = q[i + 1]
      /\ \A i \in 1..Len(q) : i # 1 => i - 1 \in 1..Len(r) /\ q[i] = r[i - 1]
      /\ ~IsChunk(q[1])
  BY <1>1, TailOf, Zenon
<1>3. \A i \in 1..Len(r) : IsChunk(r[i]) => k < r[i][2] /\ r[i][2] <= n
  BY <1>2 DEF InOrder
<1>4. ASSUME NEW i \in 1..Len(r), NEW j \in 1..Len(r), i < j,
             IsChunk(r[i]), IsChunk(r[j])
      PROVE  r[i][2] < r[j][2]
  <2>1. i + 1 \in 1..Len(q) /\ j + 1 \in 1..Len(q) /\ i + 1 < j + 1
    BY <1>2, <1>4
  <2>2. r[i] = q[i + 1] /\ r[j] = q[j + 1]
    BY <1>2, Zenon
  <2> QED
    BY <1>4, <2>1, <2>2, Zenon DEF InOrder
<1>5. ASSUME NEW c \in Nat, k < c, c <= n
      PROVE  \E i \in 1..Len(r) : IsChunk(r[i]) /\ r[i][2] = c
  <2>1. PICK i \in 1..Len(q) : IsChunk(q[i]) /\ q[i][2] = c
    BY <1>5, Zenon DEF InOrder
  <2>2. i - 1 \in 1..Len(r) /\ r[i - 1] = q[i]
    BY <1>2, <2>1, Zenon
  <2> QED
    BY <2>1, <2>2, Zenon
<1> QED
  BY <1>1, <1>3, <1>4, <1>5, Zenon DEF InOrder

\* The first chunk is the next one.
LEMMA TakeChunk ==
  ASSUME NEW q \in Seq(UserEv), q # <<>>, NEW k \in Nat, NEW n \in Nat,
         InOrder(q, k, n), IsChunk(Head(q))
  PROVE  Head(q)[2] = k + 1 /\ k + 1 <= n /\ InOrder(Tail(q), k + 1, n)
<1>1. PICK r : r = Tail(q)
  BY Zenon
<1>2. /\ Len(r) = Len(q) - 1 /\ Len(q) \in Nat /\ Len(q) >= 1
      /\ \A i \in 1..Len(r) : i + 1 \in 1..Len(q) /\ r[i] = q[i + 1]
      /\ \A i \in 1..Len(q) : i # 1 => i - 1 \in 1..Len(r) /\ q[i] = r[i - 1]
      /\ IsChunk(q[1]) /\ Head(q) = q[1]
  BY <1>1, TailOf, Zenon
<1>3. \A i \in 1..Len(q) : q[i][2] \in Nat
  BY EventFacts, Zenon
<1>4. q[1][2] = k + 1 /\ k + 1 <= n
  <2>1. k < q[1][2] /\ q[1][2] <= n /\ q[1][2] \in Nat
    BY <1>2, <1>3 DEF InOrder
  <2>2. PICK i \in 1..Len(q) : IsChunk(q[i]) /\ q[i][2] = k + 1
    BY <2>1 DEF InOrder
  <2>3. i = 1 \/ q[1][2] < k + 1
    BY <1>2, <2>2 DEF InOrder
  <2> QED
    BY <2>1, <2>2, <2>3
<1>5. \A i \in 1..Len(r) : IsChunk(r[i]) => k + 1 < r[i][2] /\ r[i][2] <= n
  BY <1>2, <1>3, <1>4, SMTT(30) DEF InOrder
<1>6. ASSUME NEW i \in 1..Len(r), NEW j \in 1..Len(r), i < j,
             IsChunk(r[i]), IsChunk(r[j])
      PROVE  r[i][2] < r[j][2]
  <2>1. i + 1 \in 1..Len(q) /\ j + 1 \in 1..Len(q) /\ i + 1 < j + 1
    BY <1>2, <1>6
  <2>2. r[i] = q[i + 1] /\ r[j] = q[j + 1]
    BY <1>2, Zenon
  <2> QED
    BY <1>6, <2>1, <2>2, Zenon DEF InOrder
<1>7. ASSUME NEW c \in Nat, k + 1 < c, c <= n
      PROVE  \E i \in 1..Len(r) : IsChunk(r[i]) /\ r[i][2] = c
  <2>1. PICK i \in 1..Len(q) : IsChunk(q[i]) /\ q[i][2] = c
    BY <1>7 DEF InOrder
  <2>2. i - 1 \in 1..Len(r) /\ r[i - 1] = q[i]
    BY <1>2, <1>4, <1>7, <2>1
  <2> QED
    BY <2>1, <2>2, Zenon
<1> QED
  BY <1>1, <1>2, <1>4, <1>5, <1>6, <1>7, Zenon DEF InOrder

\* An event is appended: the next chunk, or something else.
LEMMA AddEvent ==
  ASSUME NEW q, WellFormed(q), NEW e \in UserEv, e[1] # "OnConnectIndication",
         IsChunk(e) => ~Has(q, "OnDisconnect")
  PROVE  /\ WellFormed(Append(q, e))
         /\ Has(Append(q, e), "OnDisconnect") =>
              Has(q, "OnDisconnect") \/ e[1] = "OnDisconnect"
         /\ q # <<>> => Append(q, e) # <<>> /\ Append(q, e)[1] = q[1]
<1>1. q \in Seq(UserEv)
  BY Zenon DEF WellFormed
<1>2. PICK r : r = Append(q, e)
  BY Zenon
<1>3. /\ r \in Seq(UserEv) /\ Len(r) = Len(q) + 1 /\ Len(q) \in Nat
      /\ \A i \in 1..Len(q) : i \in 1..Len(r) /\ r[i] = q[i]
      /\ r[Len(q) + 1] = e
      /\ \A i \in 1..Len(r) : i # Len(q) + 1 => i \in 1..Len(q)
  BY <1>1, <1>2, AppendOf
<1>4. \A i \in 1..Len(r) : r[i][1] = "OnConnectIndication" => i = 1
  BY <1>3, Zenon DEF WellFormed
<1>5. \A i, j \in 1..Len(r) : i < j /\ r[i][1] = "OnDisconnect" => ~IsChunk(r[j])
  BY <1>3 DEF WellFormed, Has
<1>6. Has(r, "OnDisconnect") => Has(q, "OnDisconnect") \/ e[1] = "OnDisconnect"
  BY <1>3, Zenon DEF Has
<1>7. q # <<>> => r # <<>> /\ r[1] = q[1]
  BY <1>1, <1>3
<1> QED
  BY <1>2, <1>3, <1>4, <1>5, <1>6, <1>7, Zenon DEF WellFormed

\* The chunks are still in order behind an event that is appended.
LEMMA AddOrder ==
  ASSUME NEW q \in Seq(UserEv), NEW e \in UserEv, NEW k \in Nat, NEW n \in Nat,
         InOrder(q, k, n)
  PROVE  /\ ~IsChunk(e) => InOrder(Append(q, e), k, n)
         /\ e = <<"OnReceive", n + 1>> /\ k <= n => InOrder(Append(q, e), k, n + 1)
<1>1. PICK r : r = Append(q, e)
  BY Zenon
<1>2. /\ Len(r) = Len(q) + 1 /\ Len(q) \in Nat
      /\ \A i \in 1..Len(q) : i \in 1..Len(r) /\ r[i] = q[i]
      /\ r[Len(q) + 1] = e
      /\ \A i \in 1..Len(r) : i # Len(q) + 1 => i \in 1..Len(q)
  BY <1>1, AppendOf, Zenon
<1>3. \A i \in 1..Len(q) : q[i][2] \in Nat
  BY EventFacts, Zenon
<1>4. CASE ~IsChunk(e)
  <2>1. \A i \in 1..Len(r) : IsChunk(r[i]) => i \in 1..Len(q) /\ r[i] = q[i]
    BY <1>2, <1>4, Zenon
  <2>2. \A c \in Nat : k < c /\ c <= n => \E i \in 1..Len(r) : IsChunk(r[i]) /\ r[i][2] = c
    BY <1>2, Zenon DEF InOrder
  <2>3. InOrder(r, k, n)
    BY <2>1, <2>2, Zenon DEF InOrder
  <2> QED
    BY <1>1, <1>4, <2>3 DEF IsChunk
<1>5. CASE e = <<"OnReceive", n + 1>> /\ k <= n
  <2>1. IsChunk(e) /\ e[2] = n + 1
    BY <1>5, Zenon DEF IsChunk
  <2>2. ASSUME NEW i \in 1..Len(r), IsChunk(r[i])
        PROVE  /\ k < r[i][2] /\ r[i][2] <= n + 1
               /\ i # Len(q) + 1 => r[i][2] <= n
    <3>1. CASE i = Len(q) + 1
      BY <1>2, <1>5, <2>1, <3>1
    <3>2. CASE i # Len(q) + 1
      <4>1. i \in 1..Len(q) /\ r[i] = q[i] /\ q[i][2] \in Nat
        BY <1>2, <1>3, <3>2, Zenon
      <4>2. k < q[i][2] /\ q[i][2] <= n
        BY <2>2, <4>1, Zenon DEF InOrder
      <4> QED
        BY <4>1, <4>2
    <3> QED
      BY <3>1, <3>2, Zenon
  <2>3. ASSUME NEW i \in 1..Len(r), NEW j \in 1..Len(r), i < j,
               IsChunk(r[i]), IsChunk(r[j])
        PROVE  r[i][2] < r[j][2]
    <3>1. i \in 1..Len(q) /\ r[i] = q[i] /\ q[i][2] \in Nat
      BY <1>2, <1>3, <2>3
    <3>2. CASE j = Len(q) + 1
      <4>1. r[j][2] = n + 1 /\ r[i][2] <= n
        BY <1>2, <2>1, <2>2, <2>3, <3>1, <3>2
      <4> QED
        BY <3>1, <4>1
    <3>3. CASE j # Len(q) + 1
      <4>1. j \in 1..Len(q) /\ r[j] = q[j]
        BY <1>2, <3>3, Zenon
      <4> QED
        BY <2>3, <3>1, <4>1, Zenon DEF InOrder
    <3> QED
      BY <3>2, <3>3, Zenon
  <2>4. ASSUME NEW c \in Nat, k < c, c <= n + 1
        PROVE  \E i \in 1..Len(r) : IsChunk(r[i]) /\ r[i][2] = c
    <3>1. CASE c = n + 1
      BY <1>2, <2>1, <3>1
    <3>2. CASE c # n + 1
      <4>1. PICK i \in 1..Len(q) : IsChunk(q[i]) /\ q[i][2] = c
        BY <2>4, <3>2 DEF InOrder
      <4> QED
        BY <1>2, <4>1, Zenon
    <3> QED
      BY <3>1, <3>2, Zenon
  <2>5. InOrder(r, k, n + 1)
    BY <2>2, <2>3, <2>4, Zenon DEF InOrder
  <2> QED
    BY <1>1, <2>1, <2>5, Zenon
<1> QED
  BY <1>4, <1>5, Zenon

-----------------------------------------------------------------------------
(* The invariant *)

\* The chunks handed to the user thread so far.
Posted == IF netpc = "OnReceive" THEN sock.read - 1 ELSE sock.read

RecvType ==
  /\ WellFormed(userQ) /\ received \in Seq(Nat) /\ told \in Nat
  /\ userpc = "OnSend" => userQ # <<>> /\ userQ[1][1] = "OnSend"

\* A proxy that is not stopped has a sink, or the indication that brings one
\* is the next event.
ConnInv ==
  m_bStoppedFlag \/ m_pSinkActual
    \/ (userQ # <<>> /\ userQ[1][1] = "OnConnectIndication")

\* Until the proxy is stopped no chunk is lost on its way to the stream.
OrderInv ==
  /\ received = Upto(Len(received))
  /\ m_bStoppedFlag
       \/ (Len(received) <= Posted /\ InOrder(userQ, Len(received), Posted))

\* The end of the connection is on its way to the stream, or has arrived.
Over == netpc = "OnDisconnect" \/ Has(userQ, "OnDisconnect") \/ told > 0

\* It comes after the last chunk, and the socket is closed by then.
EndInv ==
  /\ trpt.reg \/ netpc \in {"recv", "OnReceive"} => trpt.fd
  /\ netpc = "OnReceive" => sock.read > 0
  /\ Over => ~trpt.fd /\ (sock.err \/ sock.read = sock.sent)
  /\ told > 0 => m_bStoppedFlag /\ (sock.err \/ Len(received) = sock.sent)

RecvInv == RecvType /\ ConnInv /\ OrderInv /\ EndInv

Inv == SendInv /\ RecvInv

\* A new connection satisfies the invariant.
LEMMA InitInv == Init => Inv
<1> SUFFICES ASSUME Init PROVE Inv
  BY Zenon
<1>1. SendType
  BY DEF Init, SendType
<1>2. SockType
  <2>1. <<>> \in Seq(Nat) /\ Len(<<>>) = 0
    BY EmptySeq, Zenon
  <2>2. sock.wire = <<>> /\ sock.taken = 0
    BY Zenon DEF Init
  <2>3. sock \in [wire : Seq(Nat), taken : Nat, sent : Nat, read : Nat,
                  fin : BOOLEAN, err : BOOLEAN, inEdge : BOOLEAN, outEdge : BOOLEAN]
    BY <2>1, Zenon DEF Init
  <2> QED
    BY <2>1, <2>2, <2>3, Sizes DEF SockType
<1>3. FlagType /\ FullInv /\ SinkInv
  BY Zenon DEF Init, FlagType, FullInv, SinkInv, NetPoints
<1>4. /\ userQ = <<<<"OnConnectIndication", 0>>>> /\ Len(userQ) = 1
      /\ userQ[1][1] = "OnConnectIndication"
  BY Zenon DEF Init
<1>5. userQ \in Seq(UserEv)
  BY <1>4 DEF UserEv
<1>6. RecvType
  BY <1>4, <1>5 DEF RecvType, WellFormed, Init
<1>7. received = <<>> /\ Len(received) = 0 /\ Posted = 0 /\ told = 0
  BY Zenon DEF Init, Posted
<1>8. InOrder(userQ, 0, 0)
  BY <1>4 DEF InOrder, IsChunk
<1>9. Upto(0) = <<>>
  BY DEF Upto
<1>10. OrderInv
  BY <1>7, <1>8, <1>9 DEF OrderInv
<1>11. ConnInv
  BY <1>4, Zenon DEF ConnInv
<1>12. EndInv
  BY <1>4, <1>7 DEF EndInv, Over, Has, Init
<1> QED
  BY <1>1, <1>2, <1>3, <1>6, <1>10, <1>11, <1>12, Zenon DEF Inv, SendInv, RecvInv

\* A step that leaves the way of the bytes alone.
LEMMA KeepSend ==
  ASSUME SendInv, SendType', sock' = sock, trpt' = trpt, netpc' = netpc,
         UNCHANGED flagVars,
         m_bStoppedFlag' \in BOOLEAN, m_bStoppedFlag => m_bStoppedFlag',
         m_pSinkActual' \in BOOLEAN, m_pTransport' \in BOOLEAN, SinkInv'
  PROVE  SendInv'
<1>1. SockType'
  BY Zenon DEF SendInv, SockType
<1>2. FlagType' /\ FullInv'
  BY Zenon DEF SendInv, FlagType, FullInv, flagVars, InSend
<1> QED
  BY <1>1, <1>2, Zenon DEF SendInv

\* A step that leaves the way of the chunks alone.
LEMMA KeepRecv ==
  ASSUME RecvInv, userQ' = userQ, received' = received, told' = told,
         Posted' = Posted, m_bStoppedFlag => m_bStoppedFlag',
         m_pSinkActual => m_pSinkActual' \/ m_bStoppedFlag',
         userpc' # "OnSend" \/ userpc' = userpc, EndInv'
  PROVE  RecvInv'
<1>1. RecvType'
  BY Zenon DEF RecvInv, RecvType
<1>2. ConnInv'
  BY Zenon DEF RecvInv, ConnInv
<1>3. OrderInv'
  BY Zenon DEF RecvInv, OrderInv
<1> QED
  BY <1>1, <1>2, <1>3, Zenon DEF RecvInv

\* The end of the connection, when the network thread stays where it is.
LEMMA KeepEnd ==
  ASSUME RecvInv, userQ' = userQ, received' = received, told' = told,
         netpc' = netpc, trpt' = trpt,
         sock'.read = sock.read, sock'.sent = sock.sent, sock'.err = sock.err,
         m_bStoppedFlag => m_bStoppedFlag'
  PROVE  EndInv' /\ Posted' = Posted
BY Zenon DEF RecvInv, EndInv, Over, Posted

-----------------------------------------------------------------------------
(* The user thread *)

\* SendData moves the bytes to the network queue or keeps them.
LEMMA SendDataKeeps ==
  ASSUME Inv, NEW buf \in Seq(Nat), NEW after, SendData(buf, after)
  PROVE  /\ m_pMbSendBuf' \in Seq(Nat) /\ netQ' \in Seq(NetEvent)
         /\ userpc' = userpc \/ userpc' = after
<1>1. netQ \in Seq(NetEvent)
  BY Zenon DEF Inv, SendInv, SendType
<1>2. <<>> \in Seq(Nat)
  BY EmptySeq, Zenon
<1>3. Append(netQ, <<"SendData", buf>>) \in Seq(NetEvent)
  BY <1>1, NetQueue, Zenon
<1> QED
  BY <1>1, <1>2, <1>3, Zenon DEF SendData

\* A message is given to the proxy, or kept by the stream.
LEMMA SendMessageInv == ASSUME Inv, SendMessage PROVE Inv'
<1>1. /\ Idle /\ produced' = produced + MessageSize
      /\ SendData(m_pMbSendBuf \o [i \in 1..MessageSize |-> produced + i], "SendMessage")
      /\ UNCHANGED <<m_pTransport, received, told, userQ, netpc, m_bStoppedFlag,
                     m_pSinkActual, flagVars, trpt, sock>>
  BY Zenon DEF SendMessage
<1>2. produced \in Nat /\ m_pMbSendBuf \in Seq(Nat)
  BY Zenon DEF Inv, SendInv, SendType
<1>3. [i \in 1..MessageSize |-> produced + i] \in Seq(Nat)
  BY <1>2, Sizes
<1>4. m_pMbSendBuf \o [i \in 1..MessageSize |-> produced + i] \in Seq(Nat)
  BY <1>2, <1>3, Joined, Zenon
<1>5. /\ m_pMbSendBuf' \in Seq(Nat) /\ netQ' \in Seq(NetEvent)
      /\ userpc' = userpc \/ userpc' = "SendMessage"
  BY <1>1, <1>4, SendDataKeeps, Zenon
<1>6. SendType'
  BY <1>1, <1>2, <1>5, Sizes DEF Inv, SendInv, SendType, flagVars
<1>7. SendInv'
  BY <1>1, <1>6, KeepSend, Zenon DEF Inv, SendInv, FlagType, SinkInv
<1>8. EndInv' /\ Posted' = Posted
  BY <1>1, KeepEnd, Zenon DEF Inv
<1>9. RecvInv'
  BY <1>1, <1>5, <1>8, KeepRecv, Zenon DEF Inv, Idle
<1> QED
  BY <1>7, <1>9, Zenon DEF Inv

\* The numbers of chunks.
LEMMA PostedNat ==
  ASSUME Inv
  PROVE  Posted \in Nat /\ Len(received) \in Nat /\ userQ \in Seq(UserEv)
<1>1. sock.read \in Nat /\ (netpc = "OnReceive" => sock.read > 0)
  BY Zenon DEF Inv, SendInv, SockType, RecvInv, EndInv
<1>2. received \in Seq(Nat) /\ userQ \in Seq(UserEv)
  BY Zenon DEF Inv, RecvInv, RecvType, WellFormed
<1> QED
  BY <1>1, <1>2 DEF Posted

\* An event other than a chunk leaves the queue.
LEMMA TakeRecv ==
  ASSUME Inv, userQ # <<>>, userQ' = Tail(userQ), ~IsChunk(Head(userQ)),
         received' = received, told' = told, netpc' = netpc, trpt' = trpt,
         sock' = sock, userpc' # "OnSend", m_bStoppedFlag => m_bStoppedFlag',
         m_pSinkActual' \/ m_bStoppedFlag'
  PROVE  RecvInv'
<1>1. Posted \in Nat /\ Len(received) \in Nat /\ userQ \in Seq(UserEv)
  BY PostedNat, Zenon
<1>2. Posted' = Posted
  BY Zenon DEF Posted
<1>3. WellFormed(userQ') /\ (Has(userQ', "OnDisconnect") => Has(userQ, "OnDisconnect"))
  <2>1. WellFormed(userQ)
    BY Zenon DEF Inv, RecvInv, RecvType
  <2> QED
    BY <2>1, TakeWellFormed, Zenon
<1>4. RecvType'
  BY <1>3, Zenon DEF Inv, RecvInv, RecvType
<1>5. InOrder(userQ, Len(received), Posted) => InOrder(userQ', Len(received), Posted)
  BY <1>1, TakeOther, Zenon
<1>6. OrderInv'
  BY <1>2, <1>5, Zenon DEF Inv, RecvInv, OrderInv
<1>7. EndInv'
  BY <1>3, Zenon DEF Inv, RecvInv, EndInv, Over
<1> QED
  BY <1>4, <1>6, <1>7, Zenon DEF RecvInv, ConnInv

\* SendData reads m_bPartialDataLastTime and refuses or posts.
LEMMA SendDataPartialInv == ASSUME Inv, SendDataPartial PROVE Inv'
<1>1. /\ userQ' = IF userpc = "OnSend" THEN Tail(userQ) ELSE userQ
      /\ userpc' = "idle" /\ ReleaseReference("user", m_bStoppedFlag)
      /\ UNCHANGED <<m_pTransport, produced, received, told, netpc, m_pSinkActual,
                     flagVars, trpt, sock>>
  BY Zenon DEF SendDataPartial
<1>2. m_bStoppedFlag' \in BOOLEAN /\ (m_bStoppedFlag => m_bStoppedFlag')
  BY <1>1, Released, Zenon DEF Inv, SendInv, FlagType
<1>3. m_pMbSendBuf' \in Seq(Nat) /\ netQ' \in Seq(NetEvent)
  <2>1. m_pMbSendBuf \in Seq(Nat) /\ netQ \in Seq(NetEvent) /\ <<>> \in Seq(Nat)
    BY EmptySeq, Zenon DEF Inv, SendInv, SendType
  <2>2. Append(netQ, <<"SendData", m_pMbSendBuf>>) \in Seq(NetEvent)
    BY <2>1, NetQueue, Zenon
  <2> QED
    BY <2>1, <2>2, Zenon DEF SendDataPartial
<1>4. SendType' /\ SinkInv'
  BY <1>1, <1>2, <1>3, Zenon DEF Inv, SendInv, SendType, flagVars, SinkInv
<1>5. SendInv'
  BY <1>1, <1>2, <1>4, KeepSend, Zenon DEF Inv, SendInv, FlagType
<1>6. CASE userpc = "OnSend"
  <2>1. userQ # <<>> /\ userQ[1][1] = "OnSend" /\ userQ \in Seq(UserEv)
    BY <1>6, Zenon DEF Inv, RecvInv, RecvType, WellFormed
  <2>2. Head(userQ) = userQ[1]
    BY <2>1
  <2>3. ~IsChunk(Head(userQ))
    BY <2>1, <2>2, Zenon DEF IsChunk
  <2>4. m_pSinkActual' \/ m_bStoppedFlag'
    BY <1>1, <1>2, <2>1, Zenon DEF Inv, RecvInv, ConnInv
  <2>5. RecvInv'
    BY <1>1, <1>2, <1>6, <2>1, <2>3, <2>4, TakeRecv, Zenon
  <2> QED
    BY <1>5, <2>5, Zenon DEF Inv
<1>7. CASE userpc # "OnSend"
  <2>1. EndInv' /\ Posted' = Posted
    BY <1>1, <1>2, <1>7, KeepEnd, Zenon DEF Inv
  <2>2. RecvInv'
    BY <1>1, <1>2, <1>7, <2>1, KeepRecv, Zenon DEF Inv
  <2> QED
    BY <1>5, <2>2, Zenon DEF Inv
<1> QED
  BY <1>6, <1>7, Zenon

\* Disconnect of the proxy takes the sink and posts an event.
LEMMA DisconnectKeeps ==
  ASSUME Inv, Disconnect
  PROVE  m_pSinkActual' \in BOOLEAN /\ netQ' \in Seq(NetEvent)
         /\ (m_pSinkActual' => m_bStoppedFlag)
<1>1. netQ \in Seq(NetEvent) /\ <<>> \in Seq(Nat) /\ m_pSinkActual \in BOOLEAN
  BY EmptySeq, Zenon DEF Inv, SendInv, SendType, FlagType
<1>2. Append(netQ, <<"Disconnect", <<>>>>) \in Seq(NetEvent)
  BY <1>1, NetQueue, Zenon
<1>3. netQ' = netQ \/ netQ' = Append(netQ, <<"Disconnect", <<>>>>)
  BY Zenon DEF Disconnect
<1>4. m_pSinkActual' \in BOOLEAN /\ (m_pSinkActual' => m_bStoppedFlag)
  BY <1>1, Zenon DEF Disconnect
<1> QED
  BY <1>1, <1>2, <1>3, <1>4, Zenon

\* The stream closes the connection.
LEMMA CloseInv == ASSUME Inv, Close PROVE Inv'
<1>1. /\ Idle /\ m_pTransport' = FALSE /\ Disconnect /\ ReleaseReference("user", TRUE)
      /\ UNCHANGED <<userQ, m_pMbSendBuf, produced, received, told, userpc, netpc,
                     flagVars, trpt, sock>>
  BY Zenon DEF Close
<1>2. m_bStoppedFlag'
  BY <1>1, Released, Zenon
<1>3. m_bStoppedFlag' \in BOOLEAN
  BY <1>1, Released, Zenon
<1>4. m_pSinkActual' \in BOOLEAN /\ netQ' \in Seq(NetEvent)
  BY <1>1, DisconnectKeeps, Zenon
<1>5. SendType' /\ SinkInv'
  BY <1>1, <1>2, <1>4, Zenon DEF Inv, SendInv, SendType, flagVars, SinkInv
<1>6. SendInv'
  BY <1>1, <1>2, <1>3, <1>4, <1>5, KeepSend, Zenon DEF Inv
<1>7. EndInv' /\ Posted' = Posted
  BY <1>1, <1>2, KeepEnd, Zenon DEF Inv
<1>8. RecvInv'
  BY <1>1, <1>2, <1>7, KeepRecv, Zenon DEF Inv
<1> QED
  BY <1>6, <1>8, Zenon DEF Inv

\* The event that is fired is the first of the queue.
LEMMA FiringFirst ==
  ASSUME Inv, NEW type, Firing(type)
  PROVE  /\ userQ # <<>> /\ Head(userQ)[1] = type /\ userpc = "idle"
         /\ WellFormed(userQ) /\ userQ \in Seq(UserEv) /\ Head(userQ) = userQ[1]
<1>1. WellFormed(userQ) /\ userQ \in Seq(UserEv)
  BY Zenon DEF Inv, RecvInv, RecvType, WellFormed
<1>2. userQ # <<>> /\ Head(userQ)[1] = type /\ userpc = "idle"
  BY Zenon DEF Firing, Idle
<1>3. Head(userQ) = userQ[1]
  BY <1>1, <1>2, TailOf, Zenon
<1> QED
  BY <1>1, <1>2, <1>3, Zenon

\* The stream takes the proxy, or the event drops it.
LEMMA FireOnConnectIndicationInv == ASSUME Inv, FireOnConnectIndication PROVE Inv'
<1>1. /\ Firing("OnConnectIndication") /\ userQ' = Tail(userQ)
      /\ UNCHANGED <<m_pMbSendBuf, produced, received, told, userpc, netpc,
                     flagVars, trpt, sock>>
  BY Zenon DEF FireOnConnectIndication
<1>2. userQ # <<>> /\ ~IsChunk(Head(userQ)) /\ userpc = "idle"
  BY <1>1, FiringFirst DEF IsChunk
<1>3. /\ m_pTransport' \in BOOLEAN /\ m_pSinkActual' \in BOOLEAN
      /\ m_bStoppedFlag' \in BOOLEAN /\ netQ' \in Seq(NetEvent)
      /\ m_bStoppedFlag => m_bStoppedFlag'
      /\ m_bStoppedFlag' \/ (m_pSinkActual' /\ m_pTransport')
  <2>1. CASE /\ m_pTransport' = TRUE /\ m_pSinkActual' = TRUE /\ UNCHANGED netQ
             /\ ReleaseReference("user", m_bStoppedFlag)
    <3>1. m_bStoppedFlag' \in BOOLEAN /\ (m_bStoppedFlag => m_bStoppedFlag')
      BY <2>1, Released, Zenon DEF Inv, SendInv, FlagType
    <3> QED
      BY <2>1, <3>1, Zenon DEF Inv, SendInv, SendType
  <2>2. CASE Disconnect /\ UNCHANGED m_pTransport /\ ReleaseReference("user", TRUE)
    <3>1. m_bStoppedFlag' \in BOOLEAN /\ m_bStoppedFlag'
      BY <2>2, Released, Zenon
    <3>2. m_pSinkActual' \in BOOLEAN /\ netQ' \in Seq(NetEvent)
      BY <2>2, DisconnectKeeps, Zenon
    <3> QED
      BY <2>2, <3>1, <3>2, Zenon DEF Inv, SendInv, FlagType
  <2> QED
    BY <2>1, <2>2, Zenon DEF FireOnConnectIndication
<1>4. SendType' /\ SinkInv'
  BY <1>1, <1>3, Zenon DEF Inv, SendInv, SendType, flagVars, SinkInv
<1>5. SendInv'
  BY <1>1, <1>3, <1>4, KeepSend, Zenon DEF Inv
<1>6. RecvInv'
  BY <1>1, <1>2, <1>3, TakeRecv
<1> QED
  BY <1>5, <1>6, Zenon DEF Inv

\* One more chunk.
LEMMA UptoNext ==
  ASSUME NEW s \in Seq(Nat), s = Upto(Len(s))
  PROVE  /\ Append(s, Len(s) + 1) = Upto(Len(s) + 1)
         /\ Append(s, Len(s) + 1) \in Seq(Nat)
         /\ Len(Append(s, Len(s) + 1)) = Len(s) + 1
<1>1. PICK n \in Nat : n = Len(s)
  OBVIOUS
<1>2. \A i \in 1..n : s[i] = i
  BY <1>1, Zenon DEF Upto
<1>3. PICK t : t = Append(s, n + 1)
  BY Zenon
<1>4. /\ t \in Seq(Nat) /\ Len(t) = n + 1 /\ t[n + 1] = n + 1
      /\ \A i \in 1..n : t[i] = s[i]
  BY <1>1, <1>3
<1>5. \A i \in 1..n + 1 : t[i] = i
  BY <1>2, <1>4, SMTT(30)
<1>6. t = [i \in 1..n + 1 |-> i]
  BY <1>4, <1>5
<1> QED
  BY <1>1, <1>3, <1>4, <1>6, Zenon DEF Upto

\* A chunk reaches the stream, unless the proxy is stopped.
LEMMA FireOnReceiveInv == ASSUME Inv, FireOnReceive PROVE Inv'
<1>1. /\ Firing("OnReceive") /\ userQ' = Tail(userQ)
      /\ received' = IF ~m_bStoppedFlag /\ m_pSinkActual
                     THEN Append(received, Head(userQ)[2]) ELSE received
      /\ ReleaseReference("user", m_bStoppedFlag)
      /\ UNCHANGED <<m_pTransport, netQ, m_pMbSendBuf, produced, told, userpc, netpc,
                     m_pSinkActual, flagVars, trpt, sock>>
  BY Zenon DEF FireOnReceive
<1>2. m_bStoppedFlag' \in BOOLEAN /\ (m_bStoppedFlag => m_bStoppedFlag')
  BY <1>1, Released, Zenon DEF Inv, SendInv, FlagType
<1>3. SendType' /\ SinkInv'
  BY <1>1, <1>2, Zenon DEF Inv, SendInv, SendType, flagVars, SinkInv
<1>4. SendInv'
  BY <1>1, <1>2, <1>3, KeepSend, Zenon DEF Inv, SendInv, FlagType
<1>5. /\ userQ # <<>> /\ IsChunk(Head(userQ)) /\ userpc = "idle" /\ WellFormed(userQ)
      /\ userQ[1][1] = "OnReceive" /\ userQ \in Seq(UserEv)
  BY <1>1, FiringFirst, Zenon DEF IsChunk
<1>6. /\ WellFormed(userQ')
      /\ Has(userQ', "OnDisconnect") => Has(userQ, "OnDisconnect")
  BY <1>1, <1>5, TakeWellFormed, Zenon
<1>7. m_bStoppedFlag \/ m_pSinkActual
  BY <1>5, Zenon DEF Inv, RecvInv, ConnInv
<1>8. ConnInv'
  BY <1>1, <1>2, <1>7, Zenon DEF ConnInv
<1>9. Posted \in Nat /\ Len(received) \in Nat /\ Posted' = Posted
  BY <1>1, PostedNat, Zenon DEF Posted
<1>10. CASE m_bStoppedFlag
  <2>1. received' = received
    BY <1>1, <1>10, Zenon
  <2>2. RecvType'
    BY <1>1, <1>5, <1>6, <2>1, Zenon DEF Inv, RecvInv, RecvType
  <2>3. OrderInv'
    BY <1>2, <1>10, <2>1, Zenon DEF Inv, RecvInv, OrderInv
  <2>4. EndInv'
    BY <1>1, <1>2, <1>6, <2>1 DEF Inv, RecvInv, EndInv, Over
  <2> QED
    BY <1>4, <1>8, <2>2, <2>3, <2>4, Zenon DEF Inv, RecvInv
<1>11. CASE ~m_bStoppedFlag
  <2>1. PICK k \in Nat : k = Len(received)
    BY <1>9, Zenon
  <2>2. k <= Posted /\ InOrder(userQ, k, Posted) /\ received = Upto(k) /\ received \in Seq(Nat)
    BY <1>11, <2>1, Zenon DEF Inv, RecvInv, OrderInv, RecvType
  <2>3. Head(userQ)[2] = k + 1 /\ k + 1 <= Posted /\ InOrder(userQ', k + 1, Posted)
    BY <1>1, <1>5, <1>9, <2>2, TakeChunk, Zenon
  <2>4. received' = Append(received, k + 1)
    BY <1>1, <1>7, <1>11, <2>3, Zenon
  <2>5. received' \in Seq(Nat) /\ Len(received') = k + 1 /\ received' = Upto(k + 1)
    BY <2>1, <2>2, <2>4, UptoNext, ZenonT(30)
  <2>6. RecvType'
    BY <1>1, <1>5, <1>6, <2>5, Zenon DEF Inv, RecvInv, RecvType
  <2>7. OrderInv'
    BY <1>9, <2>3, <2>5, Zenon DEF OrderInv
  <2>8. told \in Nat /\ ~(told > 0)
    BY <1>11, Zenon DEF Inv, RecvInv, EndInv, RecvType
  <2>9. EndInv'
    BY <1>1, <1>6, <2>8, Zenon DEF Inv, RecvInv, EndInv, Over
  <2> QED
    BY <1>4, <1>8, <2>6, <2>7, <2>9, Zenon DEF Inv, RecvInv
<1> QED
  BY <1>10, <1>11, Zenon

\* The stream offers the bytes it kept.
LEMMA FireOnSendInv == ASSUME Inv, FireOnSend PROVE Inv'
<1>1. /\ Firing("OnSend")
      /\ userQ' = IF userpc' = "OnSend" THEN userQ ELSE Tail(userQ)
      /\ ReleaseReference("user", m_bStoppedFlag)
      /\ UNCHANGED <<m_pTransport, produced, received, told, netpc, m_pSinkActual,
                     flagVars, trpt, sock>>
  BY Zenon DEF FireOnSend
<1>2. m_bStoppedFlag' \in BOOLEAN /\ (m_bStoppedFlag => m_bStoppedFlag')
  BY <1>1, Released, Zenon DEF Inv, SendInv, FlagType
<1>3. /\ userQ # <<>> /\ userQ[1][1] = "OnSend" /\ ~IsChunk(Head(userQ))
      /\ userpc = "idle"
  BY <1>1, FiringFirst DEF IsChunk
<1>4. m_pMbSendBuf' \in Seq(Nat) /\ netQ' \in Seq(NetEvent)
  <2>1. m_pMbSendBuf \in Seq(Nat) /\ netQ \in Seq(NetEvent)
    BY Zenon DEF Inv, SendInv, SendType
  <2>2. \/ SendData(m_pMbSendBuf, "OnSend")
        \/ m_pMbSendBuf' = m_pMbSendBuf /\ netQ' = netQ
    BY Zenon DEF FireOnSend
  <2>3. ASSUME SendData(m_pMbSendBuf, "OnSend")
        PROVE  m_pMbSendBuf' \in Seq(Nat) /\ netQ' \in Seq(NetEvent)
    BY <2>1, <2>3, SendDataKeeps, Zenon
  <2> QED
    BY <2>1, <2>2, <2>3, Zenon
<1>5. SendType' /\ SinkInv'
  BY <1>1, <1>2, <1>4, Zenon DEF Inv, SendInv, SendType, flagVars, SinkInv
<1>6. SendInv'
  BY <1>1, <1>2, <1>5, KeepSend, Zenon DEF Inv, SendInv, FlagType
<1>7. m_pSinkActual \/ m_bStoppedFlag
  BY <1>3, Zenon DEF Inv, RecvInv, ConnInv
<1>8. CASE userpc' = "OnSend"
  <2>1. userQ' = userQ
    BY <1>1, <1>8, Zenon
  <2>2. EndInv' /\ Posted' = Posted
    BY <1>1, <1>2, <2>1, KeepEnd, Zenon DEF Inv
  <2>3. RecvType'
    BY <1>1, <1>3, <2>1, Zenon DEF Inv, RecvInv, RecvType
  <2>4. ConnInv' /\ OrderInv'
    BY <1>1, <1>2, <1>7, <2>1, <2>2, Zenon DEF Inv, RecvInv, ConnInv, OrderInv
  <2> QED
    BY <1>6, <2>2, <2>3, <2>4, Zenon DEF Inv, RecvInv
<1>9. CASE userpc' # "OnSend"
  <2>1. userQ' = Tail(userQ)
    BY <1>1, <1>9, Zenon
  <2>2. RecvInv'
    BY <1>1, <1>2, <1>3, <1>7, <1>9, <2>1, TakeRecv, Zenon
  <2> QED
    BY <1>6, <2>2, Zenon DEF Inv
<1> QED
  BY <1>8, <1>9, Zenon

\* The stream is told of the end; no chunk is queued any more.
LEMMA FireOnDisconnectInv == ASSUME Inv, FireOnDisconnect PROVE Inv'
<1> DEFINE call == ~m_bStoppedFlag /\ m_pSinkActual
<1>1. /\ Firing("OnDisconnect") /\ userQ' = Tail(userQ)
      /\ told' = IF call THEN told + 1 ELSE told
      /\ m_pTransport' = (m_pTransport /\ ~call)
      /\ ReleaseReference("user", TRUE)
      /\ UNCHANGED <<netQ, m_pMbSendBuf, produced, received, userpc, netpc,
                     m_pSinkActual, flagVars, trpt, sock>>
  BY Zenon DEF FireOnDisconnect
<1>2. m_bStoppedFlag' \in BOOLEAN /\ m_bStoppedFlag'
  BY <1>1, Released, Zenon
<1>3. m_pTransport' \in BOOLEAN
  BY <1>1, Zenon DEF Inv, SendInv, FlagType
<1>4. SendType' /\ SinkInv'
  BY <1>1, <1>2, Zenon DEF Inv, SendInv, SendType, flagVars, SinkInv
<1>5. SendInv'
  BY <1>1, <1>2, <1>3, <1>4, KeepSend, Zenon DEF Inv, SendInv, FlagType
<1>6. /\ userQ # <<>> /\ Head(userQ)[1] = "OnDisconnect" /\ userpc = "idle"
      /\ WellFormed(userQ)
  BY <1>1, FiringFirst, Zenon
<1>7. /\ WellFormed(userQ') /\ Has(userQ, "OnDisconnect")
      /\ \A i \in 1..Len(userQ) : ~IsChunk(userQ[i])
  BY <1>1, <1>6, TakeWellFormed, Zenon
<1>8. RecvType'
  BY <1>1, <1>6, <1>7, SMTT(30) DEF Inv, RecvInv, RecvType
<1>9. ConnInv' /\ OrderInv'
  BY <1>1, <1>2, Zenon DEF Inv, RecvInv, ConnInv, OrderInv
<1>10. ~trpt.fd /\ (sock.err \/ sock.read = sock.sent)
  BY <1>7, Zenon DEF Inv, RecvInv, EndInv, Over
<1>11. told' > 0 => sock.err \/ Len(received) = sock.sent
  <2>1. CASE call
    <3>1. Posted \in Nat /\ Len(received) \in Nat
      BY PostedNat, Zenon
    <3>2. Posted = sock.read
      BY <1>10, Zenon DEF Inv, RecvInv, EndInv, Posted
    <3>3. Len(received) <= Posted /\ InOrder(userQ, Len(received), Posted)
      BY <2>1, Zenon DEF Inv, RecvInv, OrderInv
    <3>4. ~(Len(received) < Posted)
      BY <1>7, <3>1, <3>3, SMTT(30) DEF InOrder
    <3> QED
      BY <1>10, <3>1, <3>2, <3>3, <3>4
  <2>2. CASE ~call
    BY <1>1, <2>2, Zenon DEF Inv, RecvInv, EndInv
  <2> QED
    BY <2>1, <2>2, Zenon
<1>12. EndInv'
  BY <1>1, <1>2, <1>10, <1>11, Zenon DEF Inv, RecvInv, EndInv, Over
<1> QED
  BY <1>5, <1>8, <1>9, <1>12, Zenon DEF Inv, RecvInv

\* The user thread passes the deletion on.
LEMMA OnTimerUserInv == ASSUME Inv, OnTimerUser PROVE Inv'
<1>1. /\ netQ' = Append(netQ, <<"Delete", <<>>>>)
      /\ UNCHANGED <<streamVars, userpc, userQ, netpc, m_bStoppedFlag,
                     m_pSinkActual, flagVars, trpt, sock>>
  BY Zenon DEF OnTimerUser
<1>2. netQ \in Seq(NetEvent) /\ <<>> \in Seq(Nat)
  BY EmptySeq, Zenon DEF Inv, SendInv, SendType
<1>3. netQ' \in Seq(NetEvent)
  BY <1>1, <1>2, NetQueue, Zenon
<1>4. SendType' /\ SinkInv'
  BY <1>1, <1>3, Zenon DEF Inv, SendInv, SendType, flagVars, streamVars, SinkInv
<1>5. SendInv'
  BY <1>1, <1>4, KeepSend, Zenon DEF Inv, SendInv, FlagType, streamVars
<1>6. EndInv' /\ Posted' = Posted
  BY <1>1, KeepEnd, Zenon DEF Inv, streamVars
<1>7. RecvInv'
  BY <1>1, <1>6, KeepRecv, Zenon DEF Inv, streamVars
<1> QED
  BY <1>5, <1>7, Zenon DEF Inv

-----------------------------------------------------------------------------
(* The network thread *)

\* The end of the connection, when the network thread is not reading.
LEMMA KeepEndNet ==
  ASSUME RecvInv, userQ' = userQ, received' = received, told' = told,
         trpt'.fd = trpt.fd, trpt'.reg => trpt.reg,
         netpc # "OnReceive", netpc' \notin {"recv", "OnReceive", "OnDisconnect"},
         sock'.read = sock.read, sock'.sent = sock.sent, sock'.err = sock.err,
         m_bStoppedFlag => m_bStoppedFlag'
  PROVE  EndInv' /\ Posted' = Posted
<1>1. Posted' = Posted
  BY Zenon DEF Posted
<1>2. Over' => Over
  BY Zenon DEF Over
<1>3. EndInv'
  BY <1>2, Zenon DEF RecvInv, EndInv, Over
<1> QED
  BY <1>1, <1>3, Zenon

\* Send_i up to its first write to a flag.
LEMMA Send_iKeeps ==
  ASSUME SendInv, NEW todo \in Seq(Nat), NEW s, NEW t,
         NEW after \in {"SendData", "OnSend"}, Send_i(todo, s, t, after),
         s = sock \/ s = [sock EXCEPT !.outEdge = FALSE],
         t = trpt \/ t = [trpt EXCEPT !.needOnSend = FALSE],
         m_pTransport' = m_pTransport, m_pSinkActual' = m_pSinkActual,
         m_bStoppedFlag' = m_bStoppedFlag
  PROVE  /\ SockType' /\ FlagType' /\ FullInv' /\ SinkInv'
         /\ m_SendBuffer' \in Seq(Nat)
         /\ sock'.sent = sock.sent /\ sock'.read = sock.read /\ sock'.err = sock.err
         /\ trpt'.fd = trpt.fd /\ trpt'.reg = trpt.reg
<1>1. /\ Write(todo, s, t) /\ netpc' = after
      /\ IF m_SendBuffer' = <<>>
         THEN m_bIsBufferFull' = FALSE /\ UNCHANGED m_bPartialDataLastTime
         ELSE m_bPartialDataLastTime' = Writable /\ UNCHANGED m_bIsBufferFull
  BY Zenon DEF Send_i
<1>2. /\ SockType' /\ m_SendBuffer' \in Seq(Nat)
      /\ sock'.sent = sock.sent /\ sock'.read = sock.read /\ sock'.err = sock.err
      /\ trpt' \in [fd : BOOLEAN, sink : BOOLEAN, needOnSend : BOOLEAN, reg : BOOLEAN]
      /\ trpt'.fd = trpt.fd /\ trpt'.reg = trpt.reg
      /\ m_SendBuffer' # <<>> /\ Writable => trpt'.needOnSend
  BY <1>1, WriteSends, Zenon
<1>3. Writable \in BOOLEAN
  BY Zenon DEF Writable
<1>4. m_bIsBufferFull' \in BOOLEAN /\ m_bPartialDataLastTime' \in BOOLEAN
  BY <1>1, <1>3, ZenonT(30) DEF SendInv, FlagType
<1>5. FlagType'
  BY <1>1, <1>2, <1>4, Zenon DEF SendInv, FlagType, NetPoints
<1>6. FullInv'
  BY <1>1, <1>2, Zenon DEF FullInv, InSend
<1> QED
  BY <1>2, <1>5, <1>6, Zenon DEF SendInv, SinkInv

\* CFSEventSendData writes its bytes behind those of the buffer.
LEMMA FireSendDataInv == ASSUME Inv, FireSendData PROVE Inv'
<1> DEFINE data == Head(netQ)[2]
<1>1. /\ netpc = "idle" /\ netQ # <<>>
      /\ UNCHANGED <<userQ, m_pTransport, m_pMbSendBuf, produced, received, told,
                     userpc, m_pSinkActual>>
  BY Zenon DEF FireSendData, NetIdle
<1>2. netQ \in Seq(NetEvent) /\ m_SendBuffer \in Seq(Nat)
  BY Zenon DEF Inv, SendInv, SendType
<1>3. /\ data \in Seq(Nat) /\ Tail(netQ) \in Seq(NetEvent)
      /\ [netQ EXCEPT ![1] = <<"SendData", <<>>>>] \in Seq(NetEvent)
  BY <1>1, <1>2, NetQueue, Zenon
<1>4. CASE /\ m_SendBuffer = <<>> /\ Fits(data) = Len(data)
           /\ Write(data, sock, trpt) /\ netQ' = Tail(netQ)
           /\ UNCHANGED <<m_bIsBufferFull, m_bPartialDataLastTime, netpc>>
           /\ ReleaseReference("net", m_bStoppedFlag)
  <2> HIDE DEF data
  <2>1. m_bStoppedFlag' \in BOOLEAN /\ (m_bStoppedFlag => m_bStoppedFlag')
    BY <1>4, Released, Zenon DEF Inv, SendInv, FlagType
  <2>2. /\ SockType' /\ m_SendBuffer' \in Seq(Nat)
        /\ sock'.sent = sock.sent /\ sock'.read = sock.read /\ sock'.err = sock.err
        /\ trpt' \in [fd : BOOLEAN, sink : BOOLEAN, needOnSend : BOOLEAN, reg : BOOLEAN]
        /\ trpt'.fd = trpt.fd /\ trpt'.reg = trpt.reg
        /\ m_SendBuffer' = <<>> <=> Fits(data) = Len(data)
    BY <1>3, <1>4, WriteSends, Zenon DEF Inv
  <2>3. m_SendBuffer' = <<>>
    BY <1>4, <2>2, Zenon
  <2>4. SendType'
    BY <1>1, <1>3, <1>4, <2>2 DEF Inv, SendInv, SendType
  <2>5. FlagType' /\ SinkInv'
    BY <1>1, <1>4, <2>1, <2>2, Zenon DEF Inv, SendInv, FlagType, SinkInv
  <2>6. FullInv'
    BY <1>4, <2>3, Zenon DEF Inv, SendInv, FullInv
  <2>7. EndInv' /\ Posted' = Posted
    BY <1>1, <1>4, <2>1, <2>2, KeepEndNet, Zenon DEF Inv
  <2>8. RecvInv'
    BY <1>1, <2>1, <2>7, KeepRecv, Zenon DEF Inv
  <2> QED
    BY <2>2, <2>4, <2>5, <2>6, <2>8, Zenon DEF Inv, SendInv
<1>5. CASE /\ netQ' = [netQ EXCEPT ![1] = <<"SendData", <<>>>>]
           /\ Send_i(m_SendBuffer \o data, sock, trpt, "SendData")
           /\ UNCHANGED <<m_bStoppedFlag, timer>>
  <2> HIDE DEF data
  <2>1. m_SendBuffer \o data \in Seq(Nat)
    BY <1>2, <1>3, Joined, Zenon
  <2>2. /\ SockType' /\ FlagType' /\ FullInv' /\ SinkInv'
        /\ m_SendBuffer' \in Seq(Nat)
        /\ sock'.sent = sock.sent /\ sock'.read = sock.read /\ sock'.err = sock.err
        /\ trpt'.fd = trpt.fd /\ trpt'.reg = trpt.reg
    <3>1. SendInv
      BY Zenon DEF Inv
    <3>2. "SendData" \in {"SendData", "OnSend"}
      BY Zenon
    <3> QED
      BY <1>1, <1>5, <2>1, <3>1, <3>2, Send_iKeeps, Zenon
  <2>3. SendType'
    BY <1>1, <1>3, <1>5, <2>2, Zenon DEF Inv, SendInv, SendType
  <2>4. netpc' = "SendData"
    BY <1>5, Zenon DEF Send_i
  <2>5. EndInv' /\ Posted' = Posted
    BY <1>1, <1>5, <2>2, <2>4, KeepEndNet, Zenon DEF Inv
  <2>6. RecvInv'
    BY <1>1, <1>5, <2>5, KeepRecv, Zenon DEF Inv
  <2> QED
    BY <2>2, <2>3, <2>6, Zenon DEF Inv, SendInv
<1> QED
  BY <1>1, <1>4, <1>5, Zenon DEF FireSendData

\* The event whose bytes are being written stays first in the queue.
HeadInv == netpc = "SendData" => netQ # <<>>

\* Only FireSendData starts a write, and it leaves its event in the queue.
LEMMA HeadStep == ASSUME Inv, HeadInv, Next PROVE HeadInv'
<1>1. netQ \in Seq(NetEvent)
  BY Zenon DEF Inv, SendInv, SendType
<1>2. ASSUME NEW e PROVE Append(netQ, e) # <<>>
  <2>1. PICK S : S = NetEvent \cup {e}
    BY Zenon
  <2>2. netQ \in Seq(S) /\ e \in S
    BY <1>1, <2>1
  <2> QED
    BY <2>2, AppendedTo, Zenon
<1>3. ASSUME UserLoop \/ SendMessage \/ Close
      PROVE  netpc' = netpc /\ (netQ' = netQ \/ \E e : netQ' = Append(netQ, e))
  BY <1>3, Zenon DEF UserLoop, SendDataPartial, FireOnConnectIndication, FireOnReceive,
     FireOnSend, FireOnDisconnect, OnTimerUser, SendMessage, Close, SendData, Disconnect
<1>4. ASSUME Peer \/ PeerTakes PROVE netpc' = netpc /\ netQ' = netQ
  BY <1>4, Zenon DEF Peer, PeerTakes
<1>5. CASE FireSendData
  <2>1. netQ # <<>> /\ 1 \in 1..Len(netQ)
    BY <1>1, <1>5, SMTT(30) DEF FireSendData
  <2>2. [netQ EXCEPT ![1] = <<"SendData", <<>>>>] # <<>>
    BY <1>1, <2>1
  <2>3. netpc' = "idle" \/ netQ' = [netQ EXCEPT ![1] = <<"SendData", <<>>>>]
    BY <1>5, Zenon DEF FireSendData, NetIdle
  <2> QED
    BY <2>2, <2>3, Zenon DEF HeadInv
<1>6. ASSUME \/ FireDisconnect \/ FireDelete \/ Send_iDone \/ OnOutput \/ OnInput
             \/ Recv_i \/ PostOnReceive \/ PostOnDisconnect \/ OnTimerNet
      PROVE  netpc' # "SendData"
  <2>1. CASE OnOutput
    BY <2>1, Zenon DEF OnOutput, OnClose, Send_i, NetIdle
  <2>2. CASE Recv_i
    BY <2>2, Zenon DEF Recv_i, OnClose
  <2> QED
    BY <1>6, <2>1, <2>2, Zenon DEF FireDisconnect, FireDelete, Send_iDone, OnInput,
       PostOnReceive, PostOnDisconnect, OnTimerNet, NetIdle, Destroy
<1> QED
  BY <1>2, <1>3, <1>4, <1>5, <1>6, Zenon DEF Next, NetLoop, NetEvents, HeadInv

\* An event other than a chunk or an indication is appended.
LEMMA AddRecv ==
  ASSUME Inv, NEW e \in UserEv, e[1] \in {"OnSend", "OnDisconnect"},
         userQ' = Append(userQ, e), received' = received, told' = told,
         Posted' = Posted, userpc' = userpc, m_pSinkActual' = m_pSinkActual,
         m_bStoppedFlag => m_bStoppedFlag', EndInv'
  PROVE  RecvInv'
<1>1. Posted \in Nat /\ Len(received) \in Nat /\ userQ \in Seq(UserEv)
  BY PostedNat, Zenon
<1>2. WellFormed(userQ) /\ ~IsChunk(e) /\ e[1] # "OnConnectIndication"
  BY Zenon DEF Inv, RecvInv, RecvType, IsChunk
<1>3. WellFormed(userQ') /\ (userQ # <<>> => userQ' # <<>> /\ userQ'[1] = userQ[1])
  BY <1>2, AddEvent, Zenon
<1>4. RecvType'
  BY <1>3, Zenon DEF Inv, RecvInv, RecvType
<1>5. ConnInv'
  BY <1>3, Zenon DEF Inv, RecvInv, ConnInv
<1>6. InOrder(userQ, Len(received), Posted) => InOrder(userQ', Len(received), Posted)
  BY <1>1, <1>2, AddOrder, Zenon
<1>7. OrderInv'
  BY <1>6, Zenon DEF Inv, RecvInv, OrderInv
<1> QED
  BY <1>4, <1>5, <1>7, Zenon DEF RecvInv

\* The second write of Send_i makes m_bIsBufferFull exact.
LEMMA Send_iDoneInv == ASSUME Inv, HeadInv, Send_iDone PROVE Inv'
<1>1. /\ netpc \in {"SendData", "OnSend"} /\ netpc' = "idle"
      /\ IF m_SendBuffer = <<>>
         THEN m_bPartialDataLastTime' = FALSE /\ UNCHANGED m_bIsBufferFull
         ELSE m_bIsBufferFull' = TRUE /\ UNCHANGED m_bPartialDataLastTime
      /\ netQ' = IF netpc = "SendData" THEN Tail(netQ) ELSE netQ
      /\ userQ' = IF netpc = "OnSend" /\ m_SendBuffer = <<>>
                  THEN Append(userQ, <<"OnSend", 0>>) ELSE userQ
      /\ ReleaseReference("net", m_bStoppedFlag)
      /\ UNCHANGED <<m_pTransport, m_pMbSendBuf, produced, received, told, userpc,
                     m_pSinkActual, m_SendBuffer, trpt, sock>>
  BY Zenon DEF Send_iDone
<1>2. m_bStoppedFlag' \in BOOLEAN /\ (m_bStoppedFlag => m_bStoppedFlag')
  BY <1>1, Released, Zenon DEF Inv, SendInv, FlagType
<1>3. netQ' \in Seq(NetEvent)
  BY <1>1, NetQueue, Zenon DEF Inv, SendInv, SendType, HeadInv
<1>4. SendType' /\ SockType' /\ SinkInv'
  BY <1>1, <1>2, <1>3, Zenon DEF Inv, SendInv, SendType, SockType, SinkInv
<1>5. m_bIsBufferFull' \in BOOLEAN /\ m_bPartialDataLastTime' \in BOOLEAN
  BY <1>1, ZenonT(30) DEF Inv, SendInv, FlagType
<1>6. FlagType'
  BY <1>1, <1>2, <1>5, Zenon DEF Inv, SendInv, FlagType, NetPoints
<1>7. FullInv'
  BY <1>1, <1>2, Zenon DEF Inv, SendInv, FullInv, InSend
<1>8. SendInv'
  BY <1>4, <1>6, <1>7, Zenon DEF SendInv
<1>9. CASE userQ' = userQ
  <2>1. EndInv' /\ Posted' = Posted
    BY <1>1, <1>2, <1>9, KeepEndNet, Zenon DEF Inv
  <2>2. RecvInv'
    BY <1>1, <1>2, <1>9, <2>1, KeepRecv DEF Inv
  <2> QED
    BY <1>8, <2>2, Zenon DEF Inv
<1>10. CASE userQ' = Append(userQ, <<"OnSend", 0>>)
  <2>1. <<"OnSend", 0>> \in UserEv /\ <<"OnSend", 0>>[1] = "OnSend"
    BY Zenon DEF UserEv
  <2>2. Posted' = Posted
    BY <1>1, Zenon DEF Posted
  <2>3. Has(userQ', "OnDisconnect") => Has(userQ, "OnDisconnect")
    BY <1>10, <2>1, AddEvent, Zenon DEF Inv, RecvInv, RecvType, IsChunk
  <2>4. EndInv'
    BY <1>1, <1>2, <2>3, Zenon DEF Inv, RecvInv, EndInv, Over
  <2>5. RecvInv'
    BY <1>1, <1>2, <1>10, <2>1, <2>2, <2>4, AddRecv, Zenon
  <2> QED
    BY <1>8, <2>5, Zenon DEF Inv
<1> QED
  BY <1>1, <1>9, <1>10, Zenon

\* A step of the network thread that leaves the bytes and the flags alone.
LEMMA KeepSendNet ==
  ASSUME SendInv, UNCHANGED <<m_pMbSendBuf, produced, m_bStoppedFlag, m_pSinkActual,
                              m_pTransport, netQ, flagVars>>,
         SockType', ~InSend, netpc' \in NetPoints, ~InSend',
         trpt' \in [fd : BOOLEAN, sink : BOOLEAN, needOnSend : BOOLEAN, reg : BOOLEAN],
         trpt'.needOnSend = trpt.needOnSend
  PROVE  SendInv'
<1>1. SendType' /\ SinkInv'
  BY Zenon DEF SendInv, SendType, SinkInv, flagVars
<1>2. FlagType'
  BY Zenon DEF SendInv, FlagType, flagVars
<1>3. FullInv'
  BY Zenon DEF SendInv, FullInv, flagVars
<1> QED
  BY <1>1, <1>2, <1>3, Zenon DEF SendInv

\* OnClose closes the socket and leaves the news for the proxy.
LEMMA OnCloseKeeps ==
  ASSUME Inv, OnClose, netpc \in {"idle", "recv"},
         UNCHANGED <<userQ, received, told, userpc, m_bStoppedFlag, m_pSinkActual>>,
         sock'.read = sock.read, sock'.sent = sock.sent, sock'.err = sock.err,
         sock.err \/ sock.read = sock.sent
  PROVE  /\ RecvInv' /\ netpc' \in {"idle", "OnDisconnect"}
         /\ trpt' \in [fd : BOOLEAN, sink : BOOLEAN, needOnSend : BOOLEAN, reg : BOOLEAN]
         /\ trpt'.needOnSend = trpt.needOnSend
<1>1. netpc' \in {"idle", "OnDisconnect"}
  BY Zenon DEF OnClose
<1>2. /\ trpt' \in [fd : BOOLEAN, sink : BOOLEAN, needOnSend : BOOLEAN, reg : BOOLEAN]
      /\ trpt'.needOnSend = trpt.needOnSend /\ ~trpt'.fd /\ ~trpt'.reg
  BY Zenon DEF OnClose, Inv, SendInv, FlagType
<1>3. Posted' = Posted
  BY <1>1, Zenon DEF Posted
<1>4. EndInv'
  BY <1>1, <1>2, Zenon DEF Inv, RecvInv, EndInv
<1>5. RecvInv'
  BY <1>3, <1>4, KeepRecv, Zenon DEF Inv
<1> QED
  BY <1>1, <1>2, <1>5, Zenon

\* The write filter: close, nothing to do, or another Send_i.
LEMMA OnOutputInv == ASSUME Inv, OnOutput PROVE Inv'
<1>1. /\ netpc = "idle"
      /\ UNCHANGED <<streamVars, userpc, userQ, netQ, m_bStoppedFlag, m_pSinkActual>>
  BY Zenon DEF OnOutput, NetIdle
<1>2. ASSUME sock' = [sock EXCEPT !.outEdge = FALSE]
      PROVE  SockType' /\ sock'.read = sock.read /\ sock'.sent = sock.sent /\ sock'.err = sock.err
  BY <1>2, Zenon DEF Inv, SendInv, SockType
<1>3. CASE /\ sock.err /\ sock' = [sock EXCEPT !.outEdge = FALSE]
           /\ OnClose /\ UNCHANGED flagVars
  <2>1. /\ RecvInv' /\ netpc' \in {"idle", "OnDisconnect"}
        /\ trpt' \in [fd : BOOLEAN, sink : BOOLEAN, needOnSend : BOOLEAN, reg : BOOLEAN]
        /\ trpt'.needOnSend = trpt.needOnSend
    BY <1>1, <1>2, <1>3, OnCloseKeeps, Zenon DEF streamVars
  <2>2. SendInv'
    BY <1>1, <1>2, <1>3, <2>1, KeepSendNet, Zenon DEF Inv, InSend, NetPoints, streamVars
  <2> QED
    BY <2>1, <2>2, Zenon DEF Inv
<1>4. CASE /\ ~sock.err /\ (~trpt.needOnSend \/ m_bStoppedFlag)
           /\ sock' = [sock EXCEPT !.outEdge = FALSE]
           /\ trpt' = [trpt EXCEPT !.needOnSend = FALSE]
           /\ UNCHANGED <<flagVars, netpc>>
  <2>1. /\ trpt' \in [fd : BOOLEAN, sink : BOOLEAN, needOnSend : BOOLEAN, reg : BOOLEAN]
        /\ trpt'.fd = trpt.fd /\ trpt'.reg = trpt.reg
    BY <1>4, Zenon DEF Inv, SendInv, FlagType
  <2>2. SendType' /\ SinkInv'
    BY <1>1, <1>4, Zenon DEF Inv, SendInv, SendType, SinkInv, flagVars, streamVars
  <2>3. FlagType'
    BY <1>1, <1>4, <2>1, Zenon DEF Inv, SendInv, FlagType, flagVars, streamVars
  <2>4. FullInv'
    BY <1>1, <1>4 DEF Inv, SendInv, FullInv, InSend, flagVars
  <2>5. SendInv'
    BY <1>2, <1>4, <2>2, <2>3, <2>4, Zenon DEF SendInv
  <2>6. EndInv' /\ Posted' = Posted
    BY <1>1, <1>2, <1>4, <2>1, KeepEndNet, Zenon DEF Inv, streamVars
  <2>7. RecvInv'
    BY <1>1, <2>6, KeepRecv, Zenon DEF Inv, streamVars
  <2> QED
    BY <2>5, <2>7, Zenon DEF Inv
<1>5. CASE Send_i(m_SendBuffer, [sock EXCEPT !.outEdge = FALSE],
                  [trpt EXCEPT !.needOnSend = FALSE], "OnSend")
  <2>1. SendInv /\ m_SendBuffer \in Seq(Nat) /\ "OnSend" \in {"SendData", "OnSend"}
    BY Zenon DEF Inv, SendInv, SendType
  <2>2. m_pTransport' = m_pTransport
    BY <1>1, Zenon DEF streamVars
  <2>3. PICK s : s = [sock EXCEPT !.outEdge = FALSE]
    BY Zenon
  <2>4. PICK t : t = [trpt EXCEPT !.needOnSend = FALSE]
    BY Zenon
  <2>5. Send_i(m_SendBuffer, s, t, "OnSend")
    BY <1>5, <2>3, <2>4, Zenon
  <2>6. /\ SockType' /\ FlagType' /\ FullInv' /\ SinkInv'
        /\ m_SendBuffer' \in Seq(Nat)
        /\ sock'.sent = sock.sent /\ sock'.read = sock.read /\ sock'.err = sock.err
        /\ trpt'.fd = trpt.fd /\ trpt'.reg = trpt.reg
    BY <1>1, <2>1, <2>2, <2>3, <2>4, <2>5, Send_iKeeps, Zenon
  <2>7. SendType'
    BY <1>1, <2>6, Zenon DEF Inv, SendInv, SendType, streamVars
  <2>8. netpc' = "OnSend"
    BY <1>5, Zenon DEF Send_i
  <2>9. EndInv' /\ Posted' = Posted
    BY <1>1, <2>6, <2>8, KeepEndNet, Zenon DEF Inv, streamVars
  <2>10. RecvInv'
    BY <1>1, <2>9, KeepRecv, Zenon DEF Inv, streamVars
  <2> QED
    BY <2>6, <2>7, <2>10, Zenon DEF Inv, SendInv
<1> QED
  BY <1>3, <1>4, <1>5, Zenon DEF OnOutput

\* The read filter starts the receive loop.
LEMMA OnInputInv == ASSUME Inv, OnInput PROVE Inv'
<1>1. /\ netpc = "idle" /\ netpc' = "recv" /\ trpt.reg
      /\ sock' = [sock EXCEPT !.inEdge = FALSE]
      /\ UNCHANGED <<streamVars, userpc, userQ, netQ, m_bStoppedFlag, m_pSinkActual,
                     flagVars, trpt>>
  BY Zenon DEF OnInput, NetIdle
<1>2. /\ SockType' /\ sock'.read = sock.read /\ sock'.sent = sock.sent
      /\ sock'.err = sock.err
  BY <1>1, ZenonT(30) DEF Inv, SendInv, SockType
<1>3. SendInv'
  BY <1>1, <1>2, KeepSendNet, Zenon DEF Inv, SendInv, FlagType, InSend, NetPoints, streamVars
<1>4. Posted' = Posted
  BY <1>1, <1>2, Zenon DEF Posted
<1>5. EndInv'
  BY <1>1, <1>2, Zenon DEF Inv, RecvInv, EndInv, Over, streamVars
<1>6. RecvInv'
  BY <1>1, <1>4, <1>5, KeepRecv, Zenon DEF Inv, streamVars
<1> QED
  BY <1>3, <1>6, Zenon DEF Inv

\* One turn of the receive loop.
LEMMA Recv_iInv == ASSUME Inv, Recv_i PROVE Inv'
<1>1. /\ netpc = "recv"
      /\ UNCHANGED <<streamVars, userpc, userQ, netQ, m_bStoppedFlag, m_pSinkActual,
                     flagVars>>
  BY Zenon DEF Recv_i
<1>2. trpt.fd /\ ~Over
  BY <1>1, Zenon DEF Inv, RecvInv, EndInv
<1>3. CASE /\ sock.err \/ (sock.read = sock.sent /\ sock.fin)
           /\ OnClose /\ UNCHANGED sock
  <2>1. /\ RecvInv' /\ netpc' \in {"idle", "OnDisconnect"}
        /\ trpt' \in [fd : BOOLEAN, sink : BOOLEAN, needOnSend : BOOLEAN, reg : BOOLEAN]
        /\ trpt'.needOnSend = trpt.needOnSend
    BY <1>1, <1>3, OnCloseKeeps, Zenon DEF streamVars
  <2>2. SockType'
    BY <1>3, Zenon DEF Inv, SendInv, SockType
  <2>3. SendInv'
    BY <1>1, <2>1, <2>2, KeepSendNet, Zenon DEF Inv, InSend, NetPoints, streamVars
  <2> QED
    BY <2>1, <2>3, Zenon DEF Inv
<1>4. CASE /\ ~sock.err /\ sock.read < sock.sent
           /\ sock' = [sock EXCEPT !.read = @ + 1]
           /\ netpc' = IF m_bStoppedFlag THEN "recv" ELSE "OnReceive"
           /\ UNCHANGED trpt
  <2>1. /\ SockType' /\ sock'.read = sock.read + 1 /\ sock'.sent = sock.sent
        /\ sock'.err = sock.err /\ sock.read \in Nat
    <3>1. sock.read \in Nat
      BY Zenon DEF Inv, SendInv, SockType
    <3>2. PICK r \in Nat : r = sock.read + 1
      BY <3>1
    <3>3. sock' = [sock EXCEPT !.read = r]
      BY <1>4, <3>2, Zenon
    <3>4. SockType' /\ sock'.read = r /\ sock'.sent = sock.sent /\ sock'.err = sock.err
      BY <3>3, Zenon DEF Inv, SendInv, SockType
    <3> QED
      BY <3>1, <3>2, <3>4, Zenon
  <2>2. SendInv'
    BY <1>1, <1>4, <2>1, KeepSendNet, Zenon DEF Inv, SendInv, FlagType, InSend, NetPoints, streamVars
  <2>3. ~Over'
    BY <1>1, <1>2, <1>4, Zenon DEF Over, streamVars
  <2>4. EndInv'
    BY <1>1, <1>2, <1>4, <2>1, <2>3 DEF Inv, RecvInv, EndInv, Over, streamVars
  <2>5. CASE m_bStoppedFlag
    <3>1. RecvType' /\ ConnInv' /\ OrderInv'
      BY <1>1, <2>5, Zenon DEF Inv, RecvInv, RecvType, ConnInv, OrderInv, streamVars
    <3> QED
      BY <2>2, <2>4, <3>1, Zenon DEF Inv, RecvInv
  <2>6. CASE ~m_bStoppedFlag
    <3>1. netpc' = "OnReceive"
      BY <1>4, <2>6, Zenon
    <3>2. Posted' = Posted
      BY <1>1, <2>1, <3>1, SMTT(30) DEF Posted
    <3>3. RecvInv'
      BY <1>1, <2>4, <3>2, KeepRecv, Zenon DEF Inv, streamVars
    <3> QED
      BY <2>2, <3>3, Zenon DEF Inv
  <2> QED
    BY <2>5, <2>6, Zenon
<1>5. CASE netpc' = "idle" /\ UNCHANGED <<sock, trpt>>
  <2>1. SockType'
    BY <1>5, Zenon DEF Inv, SendInv, SockType
  <2>2. SendInv'
    BY <1>1, <1>5, <2>1, KeepSendNet DEF Inv, SendInv, FlagType, InSend, NetPoints, streamVars
  <2>3. EndInv' /\ Posted' = Posted
    BY <1>1, <1>5, KeepEndNet, Zenon DEF Inv, streamVars
  <2>4. RecvInv'
    BY <1>1, <2>3, KeepRecv, Zenon DEF Inv, streamVars
  <2> QED
    BY <2>2, <2>4, Zenon DEF Inv
<1> QED
  BY <1>3, <1>4, <1>5, Zenon DEF Recv_i

\* The chunk is queued behind those that were read before.
LEMMA PostOnReceiveInv == ASSUME Inv, PostOnReceive PROVE Inv'
<1>1. /\ netpc = "OnReceive" /\ netpc' = "recv"
      /\ userQ' = Append(userQ, <<"OnReceive", sock.read>>)
      /\ UNCHANGED <<streamVars, userpc, netQ, m_bStoppedFlag, m_pSinkActual,
                     flagVars, trpt, sock>>
  BY Zenon DEF PostOnReceive
<1>2. SockType'
  BY <1>1, Zenon DEF Inv, SendInv, SockType
<1>3. SendInv'
  BY <1>1, <1>2, KeepSendNet, Zenon DEF Inv, SendInv, FlagType, InSend, NetPoints, streamVars
<1>4. sock.read \in Nat /\ sock.read > 0 /\ trpt.fd /\ ~Over
  BY <1>1, Zenon DEF Inv, SendInv, SockType, RecvInv, EndInv
<1>5. PICK e : e = <<"OnReceive", sock.read>>
  BY Zenon
<1>6. e \in UserEv /\ e[1] = "OnReceive" /\ IsChunk(e)
  BY <1>4, <1>5, Zenon DEF UserEv, IsChunk
<1>7. WellFormed(userQ) /\ ~Has(userQ, "OnDisconnect")
  BY <1>4, Zenon DEF Inv, RecvInv, RecvType, Over
<1>8. /\ WellFormed(userQ') /\ ~Has(userQ', "OnDisconnect")
      /\ userQ # <<>> => userQ' # <<>> /\ userQ'[1] = userQ[1]
  BY <1>1, <1>5, <1>6, <1>7, AddEvent, Zenon
<1>9. RecvType' /\ ConnInv'
  BY <1>1, <1>8, Zenon DEF Inv, RecvInv, RecvType, ConnInv, streamVars
<1>10. PICK n \in Nat : n = Posted
  BY PostedNat, Zenon
<1>11. sock.read = n + 1 /\ Posted' = n + 1 /\ Len(received) \in Nat /\ userQ \in Seq(UserEv)
  BY <1>1, <1>4, <1>10, PostedNat DEF Posted
<1>12. ASSUME Len(received) <= n, InOrder(userQ, Len(received), n)
       PROVE  InOrder(userQ', Len(received), n + 1)
  BY <1>1, <1>5, <1>6, <1>11, <1>12, AddOrder, Zenon
<1>13. OrderInv'
  <2>1. received' = received /\ m_bStoppedFlag' = m_bStoppedFlag
    BY <1>1, Zenon DEF streamVars
  <2>2. /\ received = Upto(Len(received))
        /\ m_bStoppedFlag \/ (Len(received) <= n /\ InOrder(userQ, Len(received), n))
    BY <1>10, Zenon DEF Inv, RecvInv, OrderInv
  <2>3. Len(received) <= n => Len(received) <= n + 1
    BY <1>11
  <2> QED
    BY <1>11, <1>12, <2>1, <2>2, <2>3, Zenon DEF OrderInv
<1>14. EndInv'
  BY <1>1, <1>4, <1>8, Zenon DEF Inv, RecvInv, EndInv, Over, streamVars
<1> QED
  BY <1>3, <1>9, <1>13, <1>14, Zenon DEF Inv, RecvInv

\* The end is queued behind every chunk.
LEMMA PostOnDisconnectInv == ASSUME Inv, PostOnDisconnect PROVE Inv'
<1>1. /\ netpc = "OnDisconnect" /\ netpc' = "idle"
      /\ userQ' = Append(userQ, <<"OnDisconnect", 0>>)
      /\ UNCHANGED <<streamVars, userpc, netQ, m_bStoppedFlag, m_pSinkActual,
                     flagVars, trpt, sock>>
  BY Zenon DEF PostOnDisconnect
<1>2. SockType'
  BY <1>1, Zenon DEF Inv, SendInv, SockType
<1>3. SendInv'
  BY <1>1, <1>2, KeepSendNet, Zenon DEF Inv, SendInv, FlagType, InSend, NetPoints, streamVars
<1>4. <<"OnDisconnect", 0>> \in UserEv /\ <<"OnDisconnect", 0>>[1] = "OnDisconnect"
  BY Zenon DEF UserEv
<1>5. Posted' = Posted
  BY <1>1, Zenon DEF Posted
<1>6. EndInv'
  BY <1>1, Zenon DEF Inv, RecvInv, EndInv, Over, streamVars
<1>7. RecvInv'
  BY <1>1, <1>4, <1>5, <1>6, AddRecv DEF streamVars
<1> QED
  BY <1>3, <1>7, Zenon DEF Inv

\* The transport loses its handler and its sink.
LEMMA FireDisconnectInv == ASSUME Inv, FireDisconnect PROVE Inv'
<1>1. /\ netpc = "idle" /\ netQ # <<>> /\ netQ' = Tail(netQ)
      /\ trpt' = [trpt EXCEPT !.reg = FALSE, !.sink = FALSE]
      /\ ReleaseReference("net", m_bStoppedFlag)
      /\ UNCHANGED <<userQ, m_pTransport, m_pMbSendBuf, produced, received, told,
                     userpc, netpc, m_pSinkActual, flagVars, sock>>
  BY Zenon DEF FireDisconnect, NetIdle
<1>2. m_bStoppedFlag' \in BOOLEAN /\ (m_bStoppedFlag => m_bStoppedFlag')
  BY <1>1, Released, Zenon DEF Inv, SendInv, FlagType
<1>3. /\ trpt' \in [fd : BOOLEAN, sink : BOOLEAN, needOnSend : BOOLEAN, reg : BOOLEAN]
      /\ trpt'.fd = trpt.fd /\ ~trpt'.reg /\ trpt'.needOnSend = trpt.needOnSend
  BY <1>1, Zenon DEF Inv, SendInv, FlagType
<1>4. netQ' \in Seq(NetEvent)
  BY <1>1, NetQueue, Zenon DEF Inv, SendInv, SendType
<1>5. SendType' /\ SockType' /\ SinkInv'
  BY <1>1, <1>2, <1>4, Zenon DEF Inv, SendInv, SendType, SockType, SinkInv, flagVars
<1>6. FlagType'
  BY <1>1, <1>2, <1>3, Zenon DEF Inv, SendInv, FlagType, flagVars
<1>7. FullInv'
  BY <1>1, <1>2, <1>3 DEF Inv, SendInv, FullInv, InSend, flagVars
<1>8. EndInv' /\ Posted' = Posted
  BY <1>1, <1>2, <1>3, KeepEndNet, Zenon DEF Inv
<1>9. RecvInv'
  BY <1>1, <1>2, <1>8, KeepRecv, Zenon DEF Inv
<1> QED
  BY <1>5, <1>6, <1>7, <1>9, Zenon DEF Inv, SendInv

\* The destructor closes the socket.
LEMMA DestroyInv ==
  ASSUME Inv, Destroy, netpc = "idle", netQ' \in Seq(NetEvent)
  PROVE  Inv'
<1>1. /\ trpt' = [trpt EXCEPT !.reg = FALSE, !.sink = FALSE, !.fd = FALSE]
      /\ UNCHANGED <<streamVars, userpc, userQ, netpc, m_bStoppedFlag, m_pSinkActual,
                     flagVars, sock>>
  BY Zenon DEF Destroy
<1>2. /\ trpt' \in [fd : BOOLEAN, sink : BOOLEAN, needOnSend : BOOLEAN, reg : BOOLEAN]
      /\ ~trpt'.fd /\ ~trpt'.reg /\ trpt'.needOnSend = trpt.needOnSend
  BY <1>1, Zenon DEF Inv, SendInv, FlagType
<1>3. SendType' /\ SockType' /\ SinkInv'
  BY <1>1, Zenon DEF Inv, SendInv, SendType, SockType, SinkInv, flagVars, streamVars
<1>4. FlagType'
  BY <1>1, <1>2, Zenon DEF Inv, SendInv, FlagType, flagVars, streamVars
<1>5. FullInv'
  BY <1>1, <1>2, Zenon DEF Inv, SendInv, FullInv, InSend, flagVars
<1>6. Posted' = Posted
  BY <1>1, Zenon DEF Posted
<1>7. EndInv'
  BY <1>1, <1>2, Zenon DEF Inv, RecvInv, EndInv, Over, streamVars
<1>8. RecvInv'
  BY <1>1, <1>6, <1>7, KeepRecv, Zenon DEF Inv, streamVars
<1> QED
  BY <1>3, <1>4, <1>5, <1>8, Zenon DEF Inv, SendInv

\* Either way to the destructor.
LEMMA DeletionInv == ASSUME Inv, FireDelete \/ OnTimerNet PROVE Inv'
<1>1. netQ \in Seq(NetEvent)
  BY Zenon DEF Inv, SendInv, SendType
<1>2. netQ # <<>> => Tail(netQ) \in Seq(NetEvent)
  BY <1>1, NetQueue, Zenon
<1>3. Destroy /\ netpc = "idle" /\ netQ' \in Seq(NetEvent)
  BY <1>1, <1>2, Zenon DEF FireDelete, OnTimerNet
<1> QED
  BY <1>3, DestroyInv, Zenon

-----------------------------------------------------------------------------
(* The peer *)

\* The peer sends, ends or resets the connection.
LEMMA PeerInv == ASSUME Inv, Peer PROVE Inv'
<1>1. /\ trpt.fd
      /\ UNCHANGED <<streamVars, userpc, userQ, netpc, netQ, m_bStoppedFlag,
                     m_pSinkActual, flagVars, trpt>>
  BY Zenon DEF Peer
<1>2. /\ SockType' /\ sock'.read = sock.read
  <2>1. CASE sock' = [sock EXCEPT !.sent = @ + 1, !.inEdge = TRUE]
    <3>1. sock.sent \in Nat
      BY Zenon DEF Inv, SendInv, SockType
    <3>2. PICK r \in Nat : r = sock.sent + 1
      BY <3>1
    <3>3. sock' = [sock EXCEPT !.sent = r, !.inEdge = TRUE]
      BY <2>1, <3>2, Zenon
    <3> QED
      BY <3>3, Zenon DEF Inv, SendInv, SockType
  <2>2. CASE sock' = [sock EXCEPT !.fin = TRUE, !.inEdge = TRUE]
    BY <2>2, Zenon DEF Inv, SendInv, SockType
  <2>3. CASE sock' = [sock EXCEPT !.err = TRUE, !.inEdge = TRUE, !.outEdge = TRUE]
    BY <2>3, ZenonT(30) DEF Inv, SendInv, SockType
  <2> QED
    BY <2>1, <2>2, <2>3, Zenon DEF Peer
<1>3. SendType' /\ SinkInv' /\ FlagType' /\ FullInv'
  BY <1>1 DEF Inv, SendInv, SendType, SinkInv, FlagType, FullInv, InSend, flagVars, streamVars
<1>4. Posted' = Posted
  BY <1>1, <1>2, Zenon DEF Posted
<1>5. ~Over /\ (Over' <=> Over)
  BY <1>1, Zenon DEF Inv, RecvInv, EndInv, Over, streamVars
<1>6. EndInv'
  BY <1>1, <1>2, <1>5, Zenon DEF Inv, RecvInv, EndInv, Over, streamVars
<1>7. RecvInv'
  BY <1>1, <1>4, <1>6, KeepRecv, Zenon DEF Inv, streamVars
<1> QED
  BY <1>2, <1>3, <1>7, Zenon DEF Inv, SendInv

\* The peer takes a byte.
LEMMA PeerTakesInv == ASSUME Inv, PeerTakes PROVE Inv'
<1>1. /\ sock.taken < Len(sock.wire)
      /\ sock' = [sock EXCEPT !.taken = @ + 1, !.outEdge = TRUE]
      /\ UNCHANGED <<streamVars, userpc, userQ, netpc, netQ, m_bStoppedFlag,
                     m_pSinkActual, flagVars, trpt>>
  BY Zenon DEF PeerTakes
<1>2. /\ sock.taken \in Nat /\ sock.wire \in Seq(Nat)
      /\ Len(sock.wire) - sock.taken <= SocketBuffer
  BY Zenon DEF Inv, SendInv, SockType
<1>3. PICK r \in Nat : r = sock.taken + 1
  BY <1>2
<1>4. sock' = [sock EXCEPT !.taken = r, !.outEdge = TRUE]
  BY <1>1, <1>3, Zenon
<1>5. /\ sock' \in [wire : Seq(Nat), taken : Nat, sent : Nat, read : Nat,
                    fin : BOOLEAN, err : BOOLEAN, inEdge : BOOLEAN, outEdge : BOOLEAN]
      /\ sock'.taken = r /\ sock'.wire = sock.wire
      /\ sock'.read = sock.read /\ sock'.sent = sock.sent /\ sock'.err = sock.err
  BY <1>4, Zenon DEF Inv, SendInv, SockType
<1>6. Len(sock.wire) \in Nat
  BY <1>2
<1>7. r <= Len(sock.wire) /\ Len(sock.wire) - r <= SocketBuffer
  BY <1>1, <1>2, <1>3, <1>6, Sizes, SMTT(90)
<1>8. SockType'
  BY <1>5, <1>7, Zenon DEF SockType
<1>9. SendType' /\ SinkInv' /\ FlagType' /\ FullInv'
  BY <1>1 DEF Inv, SendInv, SendType, SinkInv, FlagType, FullInv, InSend, flagVars, streamVars
<1>10. EndInv' /\ Posted' = Posted
  BY <1>1, <1>5, KeepEnd, Zenon DEF Inv, streamVars
<1>11. RecvInv'
  BY <1>1, <1>10, KeepRecv, Zenon DEF Inv, streamVars
<1> QED
  BY <1>8, <1>9, <1>11, Zenon DEF Inv, SendInv

-----------------------------------------------------------------------------
(* The theorems *)

\* Nothing but the variables counts.
LEMMA Stutter == ASSUME Inv, HeadInv, UNCHANGED vars PROVE Inv' /\ HeadInv'
<1>1. SendType' /\ SockType' /\ FlagType' /\ FullInv' /\ SinkInv' /\ HeadInv'
  BY SMTT(30) DEF Inv, SendInv, SendType, SockType, FlagType, FullInv, SinkInv, InSend, HeadInv,
     vars, streamVars, flagVars
<1>2. EndInv' /\ Posted' = Posted
  BY KeepEnd, Zenon DEF Inv, vars, streamVars
<1>3. RecvInv'
  BY <1>2, KeepRecv, Zenon DEF Inv, vars, streamVars
<1> QED
  BY <1>1, <1>3, Zenon DEF Inv, SendInv

\* The invariant holds in every reachable state of the connection, whatever
\* the order in which the user thread, the network thread and the peer act.
THEOREM ConnectionInvariant == Spec => [](Inv /\ HeadInv)
<1>1. Init => Inv /\ HeadInv
  BY InitInv, Zenon DEF Init, HeadInv
<1>2. ASSUME Inv /\ HeadInv, [Next]_vars PROVE Inv' /\ HeadInv'
  <2>1. CASE Next
    <3>1. HeadInv'
      BY <1>2, <2>1, HeadStep
    <3>2. Inv'
      BY <1>2, <2>1, SendDataPartialInv, FireOnConnectIndicationInv, FireOnReceiveInv,
         FireOnSendInv, FireOnDisconnectInv, OnTimerUserInv, FireSendDataInv,
         FireDisconnectInv, DeletionInv, Send_iDoneInv, OnOutputInv, OnInputInv,
         Recv_iInv, PostOnReceiveInv, PostOnDisconnectInv, SendMessageInv, CloseInv,
         PeerInv, PeerTakesInv, Zenon
         DEF Next, UserLoop, NetLoop, NetEvents
    <3> QED
      BY <3>1, <3>2, Zenon
  <2>2. CASE UNCHANGED vars
    BY <1>2, <2>2, Stutter, Zenon
  <2> QED
    BY <1>2, <2>1, <2>2
<1> QED
  BY <1>1, <1>2, PTL DEF Spec

\* m_bIsBufferFull is exact between two events of the network thread, as
\* CFSTransportThreadProxy::OnSend asserts, and bytes held back for lack of
\* room have asked for OnOutput, for sockets and messages of any size.
THEOREM FullExact == Spec => []FullMeansBuffered
<1>1. Inv => FullMeansBuffered
  <2>1. SUFFICES ASSUME Inv PROVE FullMeansBuffered
    BY Zenon
  <2>2. FullInv /\ m_bIsBufferFull \in BOOLEAN
    BY <2>1, Zenon DEF Inv, SendInv, FlagType
  <2> QED
    BY <2>2, Zenon DEF FullInv, InSend, FullMeansBuffered
<1> QED
  BY <1>1, ConnectionInvariant, PTL

\* CFSEventOnDisconnect never overtakes received data: a stream told of an
\* orderly end has every chunk, each once and in order, for any number of them.
THEOREM AllReceived == Spec => []ReceivedAllBeforeDisconnect
<1>1. Inv => ReceivedAllBeforeDisconnect
  BY Zenon DEF Inv, RecvInv, OrderInv, EndInv, ReceivedAllBeforeDisconnect
<1> QED
  BY <1>1, ConnectionInvariant, PTL

\* The callbacks of the proxy look at the stop flag and the sink on the user
\* thread, so that a stream that closed the connection, or was told of its
\* end, is not called again whatever the network thread still posts.
THEOREM NoLateCallback == Spec => NoCallbackAfterEnd
<1>1. ASSUME Inv, [Next]_vars, received' # received \/ told' # told
      PROVE  m_pTransport /\ ~m_bStoppedFlag
  <2>1. FireOnReceive \/ FireOnDisconnect
    BY <1>1, Zenon DEF Next, UserLoop, NetLoop, NetEvents, SendDataPartial,
       FireOnConnectIndication, FireOnSend, OnTimerUser, FireSendData, FireDisconnect,
       FireDelete, Send_iDone, OnOutput, OnInput, Recv_i, PostOnReceive, PostOnDisconnect,
       OnTimerNet, Destroy, SendMessage, Close, Peer, PeerTakes, vars, streamVars
  <2>2. ~m_bStoppedFlag /\ m_pSinkActual
    BY <1>1, <2>1, Zenon DEF FireOnReceive, FireOnDisconnect
  <2> QED
    BY <1>1, <2>2 DEF Inv, SendInv, SinkInv
<1>2. Inv /\ [Next]_vars =>
        [received' # received \/ told' # told => m_pTransport /\ ~m_bStoppedFlag]_vars
  BY <1>1, Zenon
<1> QED
  BY <1>2, ConnectionInvariant, PTL DEF Spec, NoCallbackAfterEnd

-----------------------------------------------------------------------------
(* The end of the proxy *)

\* No event that deletes the proxy is in the queue.
NoDelete(q) == \A i \in 1..Len(q) : q[i][1] # "Delete"

\* The proxy is referenced and nobody is about to delete it.
Alive ==
  /\ timer = {} /\ deleted = 0 /\ NoDelete(netQ)
  /\ m_pTransport \/ userQ # <<>> \/ netQ # <<>>

\* The last reference is gone: m_TimerReference0 is armed on one thread, the
\* delete event is all the network queue holds, or the destructor has run.
Dying ==
  /\ ~m_pTransport /\ userQ = <<>>
  /\ \/ timer \in {{"user"}, {"net"}} /\ netQ = <<>> /\ deleted = 0
     \/ timer = {} /\ netQ = <<<<"Delete", <<>>>>>> /\ deleted = 0
     \/ /\ timer = {} /\ netQ = <<>> /\ deleted = 1
        /\ netpc = "idle" /\ ~trpt.sink /\ ~trpt.reg

\* The network thread, or the reactor with the registered transport, may call
\* the proxy.
Callable == trpt.reg \/ netpc = "OnDisconnect"

\* Then the proxy is not stopped, or the event that disconnects it is queued.
ReachInv ==
  /\ netpc \in {"OnSend", "recv", "OnReceive"} => trpt.reg
  /\ Callable => ~m_bStoppedFlag \/ Has(netQ, "Disconnect")
  /\ netpc = "OnDisconnect" => ~Has(userQ, "OnDisconnect")
  /\ netpc = "SendData" => netQ # <<>> /\ netQ[1][1] = "SendData"

\* The user thread is in SendData only with a stream or from an event.
UserInv == userpc \in {"idle", "OnSend"} \/ (userpc = "SendMessage" /\ m_pTransport)

LifeInv == (Alive \/ Dying) /\ ReachInv /\ UserInv

\* The types of the queues and of what is read with them.
LEMMA QueueTypes ==
  ASSUME Inv
  PROVE  /\ netQ \in Seq(NetEvent) /\ userQ \in Seq(UserEv) /\ WellFormed(userQ)
         /\ m_pTransport \in BOOLEAN /\ m_bStoppedFlag \in BOOLEAN
         /\ netpc \in NetPoints
         /\ trpt \in [fd : BOOLEAN, sink : BOOLEAN, needOnSend : BOOLEAN, reg : BOOLEAN]
BY Zenon DEF Inv, SendInv, SendType, FlagType, RecvInv, RecvType, WellFormed

\* What an event leaves in the network queue when it goes.
LEMMA NetTail ==
  ASSUME NEW q \in Seq(NetEvent), q # <<>>
  PROVE  /\ Head(q) = q[1]
         /\ NoDelete(q) => NoDelete(Tail(q)) /\ q[1][1] # "Delete"
         /\ Has(q, "Disconnect") /\ q[1][1] # "Disconnect" => Has(Tail(q), "Disconnect")
<1>1. PICK r : r = Tail(q)
  BY Zenon
<1>2. /\ Len(r) = Len(q) - 1 /\ Len(q) \in Nat /\ Len(q) >= 1 /\ Head(q) = q[1]
      /\ \A i \in 1..Len(r) : i + 1 \in 1..Len(q) /\ r[i] = q[i + 1]
      /\ \A i \in 1..Len(q) : i # 1 => i - 1 \in 1..Len(r) /\ q[i] = r[i - 1]
      /\ 1 \in 1..Len(q)
  BY <1>1
<1>3. NoDelete(q) => NoDelete(r) /\ q[1][1] # "Delete"
  BY <1>2, Zenon DEF NoDelete
<1>4. ASSUME Has(q, "Disconnect"), q[1][1] # "Disconnect" PROVE Has(r, "Disconnect")
  BY <1>2, <1>4, Zenon DEF Has
<1> QED
  BY <1>1, <1>2, <1>3, <1>4, Zenon

\* The network queue with an event more.
LEMMA NetAppend ==
  ASSUME NEW q \in Seq(NetEvent), NEW e \in NetEvent
  PROVE  /\ Append(q, e) # <<>>
         /\ NoDelete(q) /\ e[1] # "Delete" => NoDelete(Append(q, e))
         /\ Has(q, "Disconnect") \/ e[1] = "Disconnect" => Has(Append(q, e), "Disconnect")
         /\ q # <<>> => Append(q, e)[1] = q[1]
<1>1. PICK r : r = Append(q, e)
  BY Zenon
<1>2. /\ Len(r) = Len(q) + 1 /\ Len(q) \in Nat /\ r[Len(q) + 1] = e
      /\ Len(q) + 1 \in 1..Len(r)
      /\ \A i \in 1..Len(q) : i \in 1..Len(r) /\ r[i] = q[i]
      /\ \A i \in 1..Len(r) : i # Len(q) + 1 => i \in 1..Len(q)
  BY <1>1
<1>3. r # <<>>
  BY <1>1, AppendedTo, Zenon
<1>4. NoDelete(q) /\ e[1] # "Delete" => NoDelete(r)
  BY <1>2, Zenon DEF NoDelete
<1>5. Has(q, "Disconnect") \/ e[1] = "Disconnect" => Has(r, "Disconnect")
  BY <1>2, Zenon DEF Has
<1>6. q # <<>> => 1 \in 1..Len(q)
  OBVIOUS
<1> QED
  BY <1>1, <1>2, <1>3, <1>4, <1>5, <1>6, Zenon

\* The event at the head is emptied, not taken.
LEMMA NetReplace ==
  ASSUME NEW q \in Seq(NetEvent), q # <<>>, q[1][1] = "SendData",
         NEW r, r = [q EXCEPT ![1] = <<"SendData", <<>>>>]
  PROVE  /\ r # <<>> /\ r[1][1] = "SendData"
         /\ NoDelete(q) => NoDelete(r)
         /\ Has(q, "Disconnect") => Has(r, "Disconnect")
<1>1. /\ 1 \in 1..Len(q) /\ Len(r) = Len(q) /\ r # <<>>
      /\ r[1] = <<"SendData", <<>>>> /\ \A i \in 1..Len(q) : i # 1 => r[i] = q[i]
  OBVIOUS
<1>2. r[1][1] = "SendData"
  BY <1>1
<1> QED
  BY <1>1, <1>2, Zenon DEF NoDelete, Has

\* The user thread posts nothing, data or a disconnect.
Grows ==
  \/ netQ' = netQ
  \/ \E t \in {"SendData", "Disconnect"}, d \in Seq(Nat) : netQ' = Append(netQ, <<t, d>>)

\* What that leaves of the network queue.
LEMMA Grown ==
  ASSUME netQ \in Seq(NetEvent), Grows
  PROVE  /\ NoDelete(netQ) => NoDelete(netQ')
         /\ Has(netQ, "Disconnect") => Has(netQ', "Disconnect")
         /\ netQ # <<>> => netQ' # <<>> /\ netQ'[1] = netQ[1]
<1>1. ASSUME NEW t \in {"SendData", "Disconnect"}, NEW d \in Seq(Nat),
             netQ' = Append(netQ, <<t, d>>)
      PROVE  /\ NoDelete(netQ) => NoDelete(netQ')
             /\ Has(netQ, "Disconnect") => Has(netQ', "Disconnect")
             /\ netQ # <<>> => netQ' # <<>> /\ netQ'[1] = netQ[1]
  <2>1. PICK e : e = <<t, d>>
    BY Zenon
  <2>2. e \in NetEvent /\ e[1] # "Delete"
    BY <2>1, Zenon DEF NetEvent
  <2> QED
    BY <1>1, <2>1, <2>2, NetAppend, Zenon
<1> QED
  BY <1>1, Zenon DEF Grows

\* The last reference is released when both queues are empty.
LEMMA LastReleased ==
  ASSUME Inv', timer = {}, deleted = 0, deleted' = deleted, NoDelete(netQ'),
         NEW th \in {"user", "net"}, NEW st \in BOOLEAN, ReleaseReference(th, st)
  PROVE  /\ (Alive \/ Dying)'
         /\ m_pTransport' \/ userQ' # <<>> \/ netQ' # <<>> => m_bStoppedFlag' = st
<1>1. netQ' \in Seq(NetEvent)
  BY QueueTypes, Zenon DEF Inv, SendInv, SendType
<1>2. netQ' # <<>> => 1 \in 1..Len(netQ') /\ 1 \in DOMAIN netQ'
  BY <1>1
<1>3. netQ' = <<>> => DOMAIN netQ' = {}
  OBVIOUS
<1>4. Unreferenced' <=> ~m_pTransport' /\ userQ' = <<>> /\ netQ' = <<>>
  BY <1>2, <1>3, Zenon DEF Unreferenced, NoDelete
<1>5. /\ m_bStoppedFlag' = (st \/ Unreferenced')
      /\ timer' = IF Unreferenced' THEN timer \cup {th} ELSE timer
  BY Zenon DEF ReleaseReference
<1>6. CASE Unreferenced'
  <2>1. timer' = {th}
    BY <1>5, <1>6, Zenon
  <2>2. timer' \in {{"user"}, {"net"}}
    BY <2>1, Zenon
  <2> QED
    BY <1>4, <1>6, <2>2, Zenon DEF Dying
<1>7. CASE ~Unreferenced'
  <2>1. timer' = {} /\ m_bStoppedFlag' = st
    BY <1>5, <1>7, Zenon
  <2> QED
    BY <1>4, <1>7, <2>1, Zenon DEF Alive
<1> QED
  BY <1>6, <1>7, Zenon

\* A proxy that is not stopped belongs to a stream or its indication is next.
LEMMA NotStopped ==
  ASSUME Inv, ~m_bStoppedFlag
  PROVE  \/ m_pTransport
         \/ userQ # <<>> /\ userQ[1][1] = "OnConnectIndication"
BY Zenon DEF Inv, SendInv, SinkInv, RecvInv, ConnInv

\* Whoever may call the proxy or holds an event of it finds it alive.
LEMMA Lives ==
  ASSUME Inv, LifeInv,
         \/ m_pTransport \/ userQ # <<>> \/ Callable \/ netpc # "idle"
         \/ netQ # <<>> /\ netQ[1][1] # "Delete"
  PROVE  Alive
<1> SUFFICES ASSUME Dying PROVE FALSE
  BY Zenon DEF LifeInv
<1>1. ~m_pTransport /\ userQ = <<>> /\ (netQ = <<>> \/ netQ = <<<<"Delete", <<>>>>>>)
  BY Zenon DEF Dying
<1>2. netQ # <<>> => netQ[1][1] = "Delete"
  BY <1>1
<1>3. ~Has(netQ, "Disconnect")
  <2>1. CASE netQ = <<>>
    BY <2>1 DEF Has
  <2>2. CASE netQ = <<<<"Delete", <<>>>>>>
    <3>1. Len(netQ) = 1 /\ netQ[1][1] = "Delete"
      BY <2>2
    <3> QED
      BY <3>1 DEF Has
  <2> QED
    BY <1>1, <2>1, <2>2, Zenon
<1>4. ~Callable
  BY <1>1, <1>3, NotStopped, Zenon DEF LifeInv, ReachInv
<1>5. netpc \in NetPoints
  BY QueueTypes, Zenon
<1>6. netpc = "idle"
  BY <1>2, <1>4, <1>5, Zenon DEF LifeInv, ReachInv, Callable, NetPoints
<1> QED
  BY <1>1, <1>2, <1>4, <1>6, Zenon

\* A step of the user thread that releases a reference.
LEMMA UserReleases ==
  ASSUME Inv, LifeInv, Inv', Alive, Grows, UserInv',
         netpc' = netpc, trpt' = trpt, deleted' = deleted,
         userQ' = userQ \/ (userQ # <<>> /\ userQ' = Tail(userQ)),
         NEW st \in BOOLEAN, ReleaseReference("user", st),
         Callable /\ ~m_bStoppedFlag =>
           (~st /\ m_pTransport') \/ Has(netQ', "Disconnect")
  PROVE  LifeInv'
<1>1. netQ \in Seq(NetEvent) /\ WellFormed(userQ)
  BY QueueTypes, Zenon
<1>2. /\ NoDelete(netQ) => NoDelete(netQ')
      /\ Has(netQ, "Disconnect") => Has(netQ', "Disconnect")
      /\ netQ # <<>> => netQ' # <<>> /\ netQ'[1] = netQ[1]
  BY <1>1, Grown, Zenon
<1>3. Has(userQ', "OnDisconnect") => Has(userQ, "OnDisconnect")
  BY <1>1, TakeWellFormed, Zenon
<1>4. /\ (Alive \/ Dying)'
      /\ m_pTransport' => m_bStoppedFlag' = st
  BY <1>2, LastReleased, Zenon DEF Alive
<1>5. ReachInv'
  <2>1. Callable' = Callable /\ ReachInv
    BY Zenon DEF LifeInv, Callable
  <2>2. Callable => ~m_bStoppedFlag' \/ Has(netQ', "Disconnect")
    BY <1>2, <1>4, <2>1, Zenon DEF ReachInv
  <2> QED
    BY <1>2, <1>3, <2>1, <2>2, Zenon DEF ReachInv
<1> QED
  BY <1>4, <1>5, Zenon DEF LifeInv

\* A message is given to a proxy that has a stream.
LEMMA SendMessageLife == ASSUME Inv, LifeInv, Inv', SendMessage PROVE LifeInv'
<1>1. /\ m_pTransport
      /\ SendData(m_pMbSendBuf \o [i \in 1..MessageSize |-> produced + i], "SendMessage")
      /\ UNCHANGED <<m_pTransport, userQ, netpc, m_bStoppedFlag, trpt, timer, deleted>>
  BY Zenon DEF SendMessage
<1>2. Alive
  BY <1>1, Lives, Zenon
<1>3. Grows
  <2>1. PICK b : b = m_pMbSendBuf \o [i \in 1..MessageSize |-> produced + i]
    BY Zenon
  <2>2. produced \in Nat /\ m_pMbSendBuf \in Seq(Nat)
    BY Zenon DEF Inv, SendInv, SendType
  <2>3. b \in Seq(Nat)
    BY <2>1, <2>2, Sizes
  <2> QED
    BY <1>1, <2>1, <2>3, Zenon DEF SendData, Grows
<1>4. netQ \in Seq(NetEvent)
  BY QueueTypes, Zenon
<1>5. /\ NoDelete(netQ) => NoDelete(netQ')
      /\ Has(netQ, "Disconnect") => Has(netQ', "Disconnect")
      /\ netQ # <<>> => netQ' # <<>> /\ netQ'[1] = netQ[1]
  BY <1>3, <1>4, Grown, Zenon
<1>6. Alive'
  BY <1>1, <1>2, <1>5, Zenon DEF Alive
<1>7. ReachInv'
  BY <1>1, <1>5, Zenon DEF LifeInv, ReachInv, Callable
<1>8. UserInv'
  BY <1>1, Zenon DEF LifeInv, UserInv, SendData
<1> QED
  BY <1>6, <1>7, <1>8, Zenon DEF LifeInv

\* The bytes the stream keeps are posted, or not.
LEMMA KeptGrows ==
  ASSUME Inv, \/ netQ' = netQ \/ netQ' = Append(netQ, <<"SendData", m_pMbSendBuf>>)
              \/ netQ' = Append(netQ, <<"Disconnect", <<>>>>)
  PROVE  Grows
<1>1. m_pMbSendBuf \in Seq(Nat) /\ <<>> \in Seq(Nat)
  BY EmptySeq, Zenon DEF Inv, SendInv, SendType
<1> QED
  BY <1>1, Zenon DEF Grows

\* The second read of SendData, from a stream or from CFSEventOnSend.
LEMMA SendDataPartialLife == ASSUME Inv, LifeInv, Inv', SendDataPartial PROVE LifeInv'
<1>1. /\ userpc # "idle" /\ userpc' = "idle"
      /\ userQ' = IF userpc = "OnSend" THEN Tail(userQ) ELSE userQ
      /\ netQ' = netQ \/ netQ' = Append(netQ, <<"SendData", m_pMbSendBuf>>)
      /\ ReleaseReference("user", m_bStoppedFlag)
      /\ UNCHANGED <<m_pTransport, netpc, trpt, deleted>>
  BY Zenon DEF SendDataPartial, Idle
<1>2. userpc = "OnSend" => userQ # <<>> /\ userQ[1][1] = "OnSend"
  BY Zenon DEF Inv, RecvInv, RecvType
<1>3. m_pTransport \/ userQ # <<>>
  BY <1>1, <1>2, Zenon DEF LifeInv, UserInv
<1>4. ~m_bStoppedFlag => m_pTransport
  BY <1>1, <1>2, NotStopped, Zenon DEF LifeInv, UserInv
<1>5. Alive /\ Grows /\ m_bStoppedFlag \in BOOLEAN
  BY <1>1, <1>3, Lives, KeptGrows, QueueTypes, Zenon
<1>6. userQ' = userQ \/ (userQ # <<>> /\ userQ' = Tail(userQ))
  BY <1>1, <1>2, Zenon
<1>7. UserInv'
  BY <1>1, Zenon DEF UserInv
<1> QED
  BY <1>1, <1>4, <1>5, <1>6, <1>7, UserReleases, Zenon

\* A proxy that is disconnected is stopped or has the event in its queue.
LEMMA DisconnectGrows ==
  ASSUME Inv, LifeInv, Disconnect
  PROVE  Grows /\ (~m_bStoppedFlag => Has(netQ', "Disconnect"))
<1>1. netQ' = IF m_bStoppedFlag THEN netQ ELSE Append(netQ, <<"Disconnect", <<>>>>)
  BY Zenon DEF Disconnect
<1>2. Grows
  BY <1>1, KeptGrows, Zenon
<1>3. ASSUME ~m_bStoppedFlag PROVE Has(netQ', "Disconnect")
  <2>1. PICK e : e = <<"Disconnect", <<>>>>
    BY Zenon
  <2>2. e \in NetEvent /\ e[1] = "Disconnect"
    BY <2>1, EmptySeq, Zenon DEF NetEvent
  <2>3. netQ \in Seq(NetEvent) /\ netQ' = Append(netQ, e)
    BY <1>1, <1>3, <2>1, QueueTypes, Zenon
  <2> QED
    BY <2>2, <2>3, NetAppend, Zenon
<1> QED
  BY <1>2, <1>3, Zenon

\* The stream closes the connection and lets the proxy go.
LEMMA CloseLife == ASSUME Inv, LifeInv, Inv', Close PROVE LifeInv'
<1>1. /\ userpc = "idle" /\ m_pTransport /\ Disconnect /\ ReleaseReference("user", TRUE)
      /\ UNCHANGED <<userQ, userpc, netpc, trpt, deleted>>
  BY Zenon DEF Close, Idle
<1>2. Alive /\ Grows /\ (~m_bStoppedFlag => Has(netQ', "Disconnect"))
  BY <1>1, Lives, DisconnectGrows, Zenon
<1>3. UserInv'
  BY <1>1, Zenon DEF UserInv
<1> QED
  BY <1>1, <1>2, <1>3, UserReleases, Zenon

\* The indication hands the proxy to the stream, or disconnects it.
LEMMA FireOnConnectIndicationLife ==
  ASSUME Inv, LifeInv, Inv', FireOnConnectIndication PROVE LifeInv'
<1>1. /\ Firing("OnConnectIndication") /\ userQ' = Tail(userQ)
      /\ UNCHANGED <<userpc, netpc, trpt, deleted>>
  BY Zenon DEF FireOnConnectIndication
<1>2. userQ # <<>> /\ userpc = "idle"
  BY <1>1, FiringFirst, Zenon
<1>3. Alive /\ m_bStoppedFlag \in BOOLEAN
  BY <1>2, Lives, QueueTypes, Zenon
<1>4. UserInv'
  BY <1>1, <1>2, Zenon DEF UserInv
<1>5. CASE m_pTransport' = TRUE /\ netQ' = netQ /\ ReleaseReference("user", m_bStoppedFlag)
  <2>1. Grows
    BY <1>5, Zenon DEF Grows
  <2> QED
    BY <1>1, <1>2, <1>3, <1>4, <1>5, <2>1, UserReleases, Zenon
<1>6. CASE Disconnect /\ ReleaseReference("user", TRUE)
  <2>1. Grows /\ (~m_bStoppedFlag => Has(netQ', "Disconnect"))
    BY <1>6, DisconnectGrows, Zenon
  <2> QED
    BY <1>1, <1>2, <1>3, <1>4, <1>6, <2>1, UserReleases, Zenon
<1> QED
  BY <1>5, <1>6, Zenon DEF FireOnConnectIndication

\* A proxy that is not stopped when another event fires belongs to a stream.
LEMMA FiringOwned ==
  ASSUME Inv, LifeInv, NEW type, type # "OnConnectIndication", Firing(type)
  PROVE  /\ Alive /\ userQ # <<>> /\ userpc = "idle" /\ m_bStoppedFlag \in BOOLEAN
         /\ ~m_bStoppedFlag => m_pTransport
<1>1. userQ # <<>> /\ userQ[1][1] = type /\ userpc = "idle"
  BY FiringFirst, Zenon
<1> QED
  BY <1>1, Lives, QueueTypes, NotStopped, Zenon

\* A chunk is delivered, or dropped because the proxy is stopped.
LEMMA FireOnReceiveLife == ASSUME Inv, LifeInv, Inv', FireOnReceive PROVE LifeInv'
<1>1. /\ Firing("OnReceive") /\ userQ' = Tail(userQ) /\ netQ' = netQ
      /\ ReleaseReference("user", m_bStoppedFlag)
      /\ UNCHANGED <<m_pTransport, userpc, netpc, trpt, deleted>>
  BY Zenon DEF FireOnReceive
<1>2. /\ Alive /\ userQ # <<>> /\ userpc = "idle" /\ m_bStoppedFlag \in BOOLEAN
      /\ ~m_bStoppedFlag => m_pTransport
  BY <1>1, FiringOwned, Zenon
<1>3. Grows /\ UserInv'
  BY <1>1, <1>2, Zenon DEF Grows, UserInv
<1> QED
  BY <1>1, <1>2, <1>3, UserReleases, Zenon

\* The stream is called back and may offer its bytes again.
LEMMA FireOnSendLife == ASSUME Inv, LifeInv, Inv', FireOnSend PROVE LifeInv'
<1>1. /\ Firing("OnSend") /\ (userQ' = IF userpc' = "OnSend" THEN userQ ELSE Tail(userQ))
      /\ \/ SendData(m_pMbSendBuf, "OnSend")
         \/ UNCHANGED <<userpc, netQ>>
      /\ ReleaseReference("user", m_bStoppedFlag)
      /\ UNCHANGED <<m_pTransport, netpc, trpt, deleted>>
  BY Zenon DEF FireOnSend
<1>2. /\ Alive /\ userQ # <<>> /\ userpc = "idle" /\ m_bStoppedFlag \in BOOLEAN
      /\ ~m_bStoppedFlag => m_pTransport
  BY <1>1, FiringOwned, Zenon
<1>3. /\ netQ' = netQ \/ netQ' = Append(netQ, <<"SendData", m_pMbSendBuf>>)
      /\ userpc' \in {"idle", "OnSend"}
  BY <1>1, <1>2, Zenon DEF SendData
<1>4. Grows /\ UserInv'
  BY <1>3, KeptGrows, Zenon DEF UserInv
<1>5. userQ' = userQ \/ (userQ # <<>> /\ userQ' = Tail(userQ))
  BY <1>1, <1>2, Zenon
<1> QED
  BY <1>1, <1>2, <1>4, <1>5, UserReleases, Zenon

\* The stream is told of the end: by then nobody can call the proxy.
LEMMA FireOnDisconnectLife == ASSUME Inv, LifeInv, Inv', FireOnDisconnect PROVE LifeInv'
<1>1. /\ Firing("OnDisconnect") /\ userQ' = Tail(userQ) /\ netQ' = netQ
      /\ ReleaseReference("user", TRUE)
      /\ UNCHANGED <<userpc, netpc, trpt, deleted>>
  BY Zenon DEF FireOnDisconnect
<1>2. Alive /\ userQ # <<>> /\ userpc = "idle"
  BY <1>1, FiringOwned, Zenon
<1>3. Grows /\ UserInv'
  BY <1>1, <1>2, Zenon DEF Grows, UserInv
<1>4. ~Callable
  <2>1. Has(userQ, "OnDisconnect")
    <3>1. WellFormed(userQ) /\ Head(userQ)[1] = "OnDisconnect"
      BY <1>1, FiringFirst, Zenon
    <3> QED
      BY <1>2, <3>1, TakeWellFormed, Zenon
  <2>2. ~trpt.fd
    BY <2>1, Zenon DEF Inv, RecvInv, EndInv, Over
  <2> QED
    BY <2>1, <2>2, Zenon DEF Callable, LifeInv, ReachInv, Inv, RecvInv, EndInv
<1> QED
  BY <1>1, <1>2, <1>3, <1>4, UserReleases, Zenon

\* The timer of the user thread becomes the delete event.
LEMMA OnTimerUserLife == ASSUME Inv, LifeInv, OnTimerUser PROVE LifeInv'
<1>1. /\ "user" \in timer /\ timer' = timer \ {"user"}
      /\ netQ' = Append(netQ, <<"Delete", <<>>>>)
      /\ UNCHANGED <<m_pTransport, userQ, userpc, netpc, m_bStoppedFlag, trpt, deleted>>
  BY Zenon DEF OnTimerUser, streamVars
<1>2. ~Alive
  BY <1>1, Zenon DEF Alive
<1>3. /\ ~m_pTransport /\ userQ = <<>> /\ netQ = <<>> /\ deleted = 0
      /\ timer \in {{"user"}, {"net"}}
  BY <1>1, <1>2, Zenon DEF LifeInv, Dying
<1>4. timer' = {}
  BY <1>1, <1>3, Zenon
<1>5. netQ' = <<<<"Delete", <<>>>>>>
  BY <1>1, <1>3
<1>6. ~Callable /\ netpc = "idle"
  BY <1>2, Lives, Zenon
<1>7. Dying'
  BY <1>1, <1>3, <1>4, <1>5, Zenon DEF Dying
<1>8. ReachInv'
  BY <1>1, <1>6, Zenon DEF ReachInv, Callable
<1>9. UserInv'
  BY <1>1, Zenon DEF LifeInv, UserInv
<1> QED
  BY <1>7, <1>8, <1>9, Zenon DEF LifeInv

\* An event of the network thread ends and releases its reference.
LEMMA NetReleases ==
  ASSUME Inv, LifeInv, Inv', Alive,
         netQ' = netQ \/ (netQ # <<>> /\ netQ' = Tail(netQ)),
         userQ' = userQ \/ userQ' # <<>>,
         netpc' = "idle", deleted' = deleted, m_pTransport' = m_pTransport,
         userpc' = userpc, ReleaseReference("net", m_bStoppedFlag),
         trpt'.reg => trpt.reg /\ (netQ' = netQ \/ netQ[1][1] # "Disconnect")
  PROVE  LifeInv'
<1>1. netQ \in Seq(NetEvent) /\ m_bStoppedFlag \in BOOLEAN
  BY QueueTypes, Zenon
<1>2. /\ NoDelete(netQ')
      /\ trpt'.reg /\ Has(netQ, "Disconnect") => Has(netQ', "Disconnect")
  BY <1>1, NetTail, Zenon DEF Alive
<1>3. /\ (Alive \/ Dying)'
      /\ m_pTransport' \/ userQ' # <<>> => m_bStoppedFlag' = m_bStoppedFlag
  BY <1>1, <1>2, LastReleased, Zenon DEF Alive
<1>4. ASSUME trpt'.reg PROVE ~m_bStoppedFlag' \/ Has(netQ', "Disconnect")
  <2>1. ~m_bStoppedFlag \/ Has(netQ, "Disconnect")
    BY <1>4, Zenon DEF LifeInv, ReachInv, Callable
  <2> QED
    BY <1>2, <1>3, <1>4, <2>1, NotStopped, Zenon
<1>5. ReachInv'
  BY <1>4, Zenon DEF ReachInv, Callable
<1>6. UserInv'
  BY Zenon DEF LifeInv, UserInv
<1> QED
  BY <1>3, <1>5, <1>6, Zenon DEF LifeInv

\* A step of the network thread that touches no reference.
LEMMA NetMoves ==
  ASSUME Inv, LifeInv, Alive,
         UNCHANGED <<m_pTransport, userpc, m_bStoppedFlag, timer, deleted>>,
         userQ' = userQ \/ userQ' # <<>>, netQ' = netQ, ReachInv'
  PROVE  LifeInv'
BY Zenon DEF LifeInv, Alive, UserInv

\* Data is written: the event goes, or stays while its data is being written.
LEMMA FireSendDataLife == ASSUME Inv, LifeInv, Inv', FireSendData PROVE LifeInv'
<1>1. /\ netpc = "idle" /\ netQ # <<>> /\ Head(netQ)[1] = "SendData"
      /\ UNCHANGED <<m_pTransport, userQ, userpc, deleted>>
  BY Zenon DEF FireSendData, NetIdle
<1>2. netQ \in Seq(NetEvent) /\ netQ[1][1] = "SendData"
  BY <1>1, QueueTypes, NetTail, Zenon
<1>3. Alive
  BY <1>1, <1>2, Lives, Zenon
<1>4. trpt'.reg = trpt.reg
  <2>1. PICK b : trpt' = [trpt EXCEPT !.needOnSend = b]
    BY Zenon DEF FireSendData, Send_i, Write
  <2>2. trpt \in [fd : BOOLEAN, sink : BOOLEAN, needOnSend : BOOLEAN, reg : BOOLEAN]
    BY QueueTypes, Zenon
  <2> QED
    BY <2>1, <2>2, Zenon
<1>5. CASE netQ' = Tail(netQ) /\ netpc' = netpc /\ ReleaseReference("net", m_bStoppedFlag)
  BY <1>1, <1>2, <1>3, <1>4, <1>5, NetReleases, Zenon
<1>6. CASE /\ netQ' = [netQ EXCEPT ![1] = <<"SendData", <<>>>>] /\ netpc' = "SendData"
           /\ UNCHANGED <<m_bStoppedFlag, timer>>
  <2>1. /\ netQ' # <<>> /\ netQ'[1][1] = "SendData"
        /\ NoDelete(netQ) => NoDelete(netQ')
        /\ Has(netQ, "Disconnect") => Has(netQ', "Disconnect")
    BY <1>1, <1>2, <1>6, NetReplace, Zenon
  <2>2. Alive'
    BY <1>1, <1>3, <1>6, <2>1, Zenon DEF Alive
  <2>3. ReachInv'
    BY <1>1, <1>4, <1>6, <2>1, Zenon DEF LifeInv, ReachInv, Callable
  <2>4. UserInv'
    BY <1>1, Zenon DEF LifeInv, UserInv
  <2> QED
    BY <2>2, <2>3, <2>4, Zenon DEF LifeInv
<1> QED
  BY <1>1, <1>5, <1>6, Zenon DEF FireSendData, Send_i

\* The write is over and its event goes, or the stream is to be called back.
LEMMA Send_iDoneLife == ASSUME Inv, LifeInv, Inv', Send_iDone PROVE LifeInv'
<1>1. /\ netpc \in {"SendData", "OnSend"} /\ netpc' = "idle"
      /\ netQ' = IF netpc = "SendData" THEN Tail(netQ) ELSE netQ
      /\ userQ' = userQ \/ userQ' = Append(userQ, <<"OnSend", 0>>)
      /\ ReleaseReference("net", m_bStoppedFlag)
      /\ UNCHANGED <<m_pTransport, userpc, trpt, deleted>>
  BY Zenon DEF Send_iDone
<1>2. Alive
  BY <1>1, Lives, Zenon
<1>3. netpc = "SendData" => netQ # <<>> /\ netQ[1][1] = "SendData"
  BY Zenon DEF LifeInv, ReachInv
<1>4. userQ' = userQ \/ userQ' # <<>>
  <2>1. userQ \in Seq(UserEv) /\ <<"OnSend", 0>> \in UserEv
    BY QueueTypes DEF UserEv
  <2> QED
    BY <1>1, <2>1, AppendedTo, Zenon
<1>5. netQ' = netQ \/ (netQ # <<>> /\ netQ' = Tail(netQ))
  BY <1>1, <1>3, Zenon
<1>6. trpt'.reg => trpt.reg /\ (netQ' = netQ \/ netQ[1][1] # "Disconnect")
  BY <1>1, <1>3, Zenon
<1> QED
  BY <1>1, <1>2, <1>4, <1>5, <1>6, NetReleases, Zenon

\* The transport is disconnected: nobody calls the proxy any more.
LEMMA FireDisconnectLife == ASSUME Inv, LifeInv, Inv', FireDisconnect PROVE LifeInv'
<1>1. /\ netpc = "idle" /\ netQ # <<>> /\ Head(netQ)[1] = "Disconnect"
      /\ netQ' = Tail(netQ) /\ trpt' = [trpt EXCEPT !.reg = FALSE, !.sink = FALSE]
      /\ ReleaseReference("net", m_bStoppedFlag)
      /\ UNCHANGED <<m_pTransport, userQ, userpc, netpc, deleted>>
  BY Zenon DEF FireDisconnect, NetIdle
<1>2. netQ \in Seq(NetEvent) /\ netQ[1][1] = "Disconnect"
  BY <1>1, QueueTypes, NetTail, Zenon
<1>3. Alive
  BY <1>1, <1>2, Lives, Zenon
<1>4. ~trpt'.reg
  <2>1. trpt \in [fd : BOOLEAN, sink : BOOLEAN, needOnSend : BOOLEAN, reg : BOOLEAN]
    BY QueueTypes, Zenon
  <2> QED
    BY <1>1, <2>1, Zenon
<1> QED
  BY <1>1, <1>3, <1>4, NetReleases, Zenon

\* The destructor runs, from the delete event or from the timer.
LEMMA DeletionLife == ASSUME Inv, LifeInv, FireDelete \/ OnTimerNet PROVE LifeInv'
<1>1. /\ netpc = "idle" /\ deleted' = deleted + 1
      /\ trpt' = [trpt EXCEPT !.reg = FALSE, !.sink = FALSE, !.fd = FALSE]
      /\ UNCHANGED <<m_pTransport, userpc, userQ, netpc, m_bStoppedFlag>>
  BY Zenon DEF FireDelete, OnTimerNet, Destroy, streamVars
<1>2. ~trpt'.reg /\ ~trpt'.sink
  <2>1. trpt \in [fd : BOOLEAN, sink : BOOLEAN, needOnSend : BOOLEAN, reg : BOOLEAN]
    BY QueueTypes, Zenon
  <2> QED
    BY <1>1, <2>1, Zenon
<1>3. ~Alive
  <2>1. CASE FireDelete
    <3>1. netQ \in Seq(NetEvent) /\ netQ # <<>> /\ netQ[1][1] = "Delete"
      BY <2>1, QueueTypes, NetTail, Zenon DEF FireDelete
    <3> QED
      BY <3>1, NetTail, Zenon DEF Alive
  <2>2. CASE OnTimerNet
    BY <2>2, Zenon DEF OnTimerNet, Alive
  <2> QED
    BY <2>1, <2>2, Zenon
<1>4. Dying
  BY <1>3, Zenon DEF LifeInv
<1>5. timer' = {} /\ netQ' = <<>> /\ deleted = 0
  <2>1. CASE FireDelete
    <3>1. netQ # <<>> /\ netQ' = Tail(netQ) /\ timer' = timer
      BY <2>1, Zenon DEF FireDelete
    <3>2. netQ = <<<<"Delete", <<>>>>>> /\ timer = {} /\ deleted = 0
      BY <1>4, <3>1, Zenon DEF Dying
    <3>3. Tail(<<<<"Delete", <<>>>>>>) = <<>>
      OBVIOUS
    <3> QED
      BY <3>1, <3>2, <3>3, Zenon
  <2>2. CASE OnTimerNet
    <3>1. "net" \in timer /\ timer' = timer \ {"net"} /\ netQ' = netQ
      BY <2>2, Zenon DEF OnTimerNet
    <3>2. timer \in {{"user"}, {"net"}} /\ netQ = <<>> /\ deleted = 0
      BY <1>4, <3>1, Zenon DEF Dying
    <3> QED
      BY <3>1, <3>2, Zenon
  <2> QED
    BY <2>1, <2>2, Zenon
<1>6. deleted' = 1
  BY <1>1, <1>5
<1>7. Dying'
  BY <1>1, <1>2, <1>4, <1>5, <1>6, Zenon DEF Dying
<1>8. ReachInv'
  BY <1>1, <1>2, Zenon DEF ReachInv, Callable
<1>9. UserInv'
  BY <1>1, Zenon DEF LifeInv, UserInv
<1> QED
  BY <1>7, <1>8, <1>9, Zenon DEF LifeInv

\* The reactor closes a registered transport; the proxy is told unless stopped.
LEMMA OnCloseReach ==
  ASSUME Inv, LifeInv, trpt.reg, OnClose, netQ' = netQ, userQ' = userQ,
         m_bStoppedFlag' = m_bStoppedFlag
  PROVE  ReachInv'
<1>1. netpc' = "idle" \/ (netpc' = "OnDisconnect" /\ ~m_bStoppedFlag)
  BY Zenon DEF OnClose
<1>2. ~trpt'.reg
  <2>1. trpt \in [fd : BOOLEAN, sink : BOOLEAN, needOnSend : BOOLEAN, reg : BOOLEAN]
    BY QueueTypes, Zenon
  <2> QED
    BY <2>1, Zenon DEF OnClose
<1>3. ~Has(userQ, "OnDisconnect")
  BY Zenon DEF Inv, RecvInv, EndInv, Over
<1> QED
  BY <1>1, <1>2, <1>3, Zenon DEF ReachInv, Callable

\* The write filter fires for a registered transport.
LEMMA OnOutputLife == ASSUME Inv, LifeInv, OnOutput PROVE LifeInv'
<1>1. /\ trpt.reg /\ netpc = "idle"
      /\ UNCHANGED <<m_pTransport, userpc, userQ, netQ, m_bStoppedFlag, timer, deleted>>
  BY Zenon DEF OnOutput, NetIdle, streamVars
<1>2. Alive
  BY <1>1, Lives, Zenon DEF Callable
<1>3. CASE OnClose
  BY <1>1, <1>2, <1>3, OnCloseReach, NetMoves, Zenon
<1>4. ASSUME NEW b, trpt' = [trpt EXCEPT !.needOnSend = b], netpc' \in {"idle", "OnSend"}
      PROVE  LifeInv'
  <2>1. trpt'.reg
    <3>1. trpt \in [fd : BOOLEAN, sink : BOOLEAN, needOnSend : BOOLEAN, reg : BOOLEAN]
      BY QueueTypes, Zenon
    <3> QED
      BY <1>1, <1>4, <3>1, Zenon
  <2>2. ReachInv'
    BY <1>1, <1>4, <2>1, Zenon DEF LifeInv, ReachInv, Callable
  <2> QED
    BY <1>1, <1>2, <2>2, NetMoves, Zenon
<1>5. CASE trpt' = [trpt EXCEPT !.needOnSend = FALSE] /\ netpc' = netpc
  BY <1>1, <1>4, <1>5, Zenon
<1>6. CASE Send_i(m_SendBuffer, [sock EXCEPT !.outEdge = FALSE],
                  [trpt EXCEPT !.needOnSend = FALSE], "OnSend")
  <2>1. netpc' = "OnSend"
    BY <1>6, Zenon DEF Send_i
  <2>2. PICK c : trpt' = [[trpt EXCEPT !.needOnSend = FALSE] EXCEPT !.needOnSend = c]
    BY <1>6, Zenon DEF Send_i, Write
  <2>3. trpt' = [trpt EXCEPT !.needOnSend = c]
    <3>1. trpt \in [fd : BOOLEAN, sink : BOOLEAN, needOnSend : BOOLEAN, reg : BOOLEAN]
      BY QueueTypes, Zenon
    <3> QED
      BY <2>2, <3>1
  <2> QED
    BY <1>4, <2>1, <2>3, Zenon
<1> QED
  BY <1>3, <1>5, <1>6, Zenon DEF OnOutput

\* The read filter fires for a registered transport.
LEMMA OnInputLife == ASSUME Inv, LifeInv, OnInput PROVE LifeInv'
<1>1. /\ trpt.reg /\ netpc' = "recv"
      /\ UNCHANGED <<m_pTransport, userpc, userQ, netQ, m_bStoppedFlag, trpt, timer,
                     deleted>>
  BY Zenon DEF OnInput, streamVars
<1>2. Alive
  BY <1>1, Lives, Zenon DEF Callable
<1>3. ReachInv'
  BY <1>1, Zenon DEF LifeInv, ReachInv, Callable
<1> QED
  BY <1>1, <1>2, <1>3, NetMoves, Zenon

\* The transport stays registered as long as it receives.
LEMMA Recv_iLife == ASSUME Inv, LifeInv, Recv_i PROVE LifeInv'
<1>1. /\ netpc = "recv"
      /\ UNCHANGED <<m_pTransport, userpc, userQ, netQ, m_bStoppedFlag, timer, deleted>>
  BY Zenon DEF Recv_i, streamVars
<1>2. trpt.reg
  BY <1>1, Zenon DEF LifeInv, ReachInv
<1>3. Alive
  BY <1>2, Lives, Zenon DEF Callable
<1>4. CASE OnClose
  BY <1>1, <1>2, <1>3, <1>4, OnCloseReach, NetMoves, Zenon
<1>5. CASE trpt' = trpt /\ netpc' \in {"idle", "recv", "OnReceive"}
  <2>1. ReachInv'
    BY <1>1, <1>2, <1>5, Zenon DEF LifeInv, ReachInv, Callable
  <2> QED
    BY <1>1, <1>3, <2>1, NetMoves, Zenon
<1> QED
  BY <1>1, <1>4, <1>5, Zenon DEF Recv_i

\* The proxy posts to the user thread, which takes a new reference.
LEMMA PostLife ==
  ASSUME Inv, LifeInv, PostOnReceive \/ PostOnDisconnect, Inv'
  PROVE  LifeInv'
<1>1. /\ UNCHANGED <<m_pTransport, userpc, netQ, m_bStoppedFlag, trpt, timer, deleted>>
      /\ \/ netpc = "OnReceive" /\ netpc' = "recv"
         \/ netpc = "OnDisconnect" /\ netpc' = "idle"
  BY Zenon DEF PostOnReceive, PostOnDisconnect, streamVars
<1>2. Alive
  BY <1>1, Lives, Zenon
<1>3. userQ' # <<>>
  <2>1. PICK e : userQ' = Append(userQ, e)
    BY Zenon DEF PostOnReceive, PostOnDisconnect
  <2>2. PICK S : S = UserEv \cup {e}
    BY Zenon
  <2>3. userQ \in Seq(S) /\ e \in S
    BY <2>2, QueueTypes
  <2> QED
    BY <2>1, <2>3, AppendedTo, Zenon
<1>4. ReachInv'
  BY <1>1, Zenon DEF LifeInv, ReachInv, Callable
<1> QED
  BY <1>1, <1>2, <1>3, <1>4, NetMoves, Zenon

\* The peer knows nothing of the proxy.
LEMMA ElseLife ==
  ASSUME LifeInv, Peer \/ PeerTakes \/ UNCHANGED vars
  PROVE  LifeInv'
<1>1. UNCHANGED <<m_pTransport, userpc, userQ, netpc, netQ, m_bStoppedFlag, trpt, timer,
                  deleted>>
  BY Zenon DEF Peer, PeerTakes, vars, streamVars
<1>2. (Alive \/ Dying)'
  BY <1>1, Zenon DEF LifeInv, Alive, Dying
<1>3. ReachInv' /\ UserInv'
  BY <1>1, Zenon DEF LifeInv, ReachInv, Callable, UserInv
<1> QED
  BY <1>2, <1>3, Zenon DEF LifeInv

\* The life of the proxy: it is referenced, or on its one way to the destructor.
THEOREM ProxyLife == Spec => []LifeInv
<1>1. Init => LifeInv
  <2> SUFFICES ASSUME Init PROVE LifeInv
    BY Zenon
  <2>1. Len(netQ) = 0 /\ userQ # <<>> /\ timer = {} /\ deleted = 0
    BY DEF Init
  <2>2. Alive
    BY <2>1 DEF Alive, NoDelete
  <2>3. ReachInv /\ UserInv
    BY Zenon DEF Init, ReachInv, Callable, UserInv
  <2> QED
    BY <2>2, <2>3, Zenon DEF LifeInv
<1>2. ASSUME Inv, Inv', LifeInv, [Next]_vars PROVE LifeInv'
  BY <1>2, SendDataPartialLife, FireOnConnectIndicationLife, FireOnReceiveLife,
     FireOnSendLife, FireOnDisconnectLife, OnTimerUserLife, FireSendDataLife,
     FireDisconnectLife, DeletionLife, Send_iDoneLife, OnOutputLife, OnInputLife,
     Recv_iLife, PostLife, SendMessageLife, CloseLife, ElseLife, Zenon
     DEF Next, UserLoop, NetLoop, NetEvents
<1> QED
  BY <1>1, <1>2, ConnectionInvariant, PTL DEF Spec

\* The proxy is deleted once and never while it is referenced: from the release
\* of the last reference on, exactly one of m_TimerReference0, CAWEventDeleteT
\* and the destructor is under way, whichever thread released it.
THEOREM DeletedOnce == Spec => []DestroyedOnce
<1>1. Inv /\ LifeInv => DestroyedOnce
  <2> SUFFICES ASSUME Inv, LifeInv PROVE DestroyedOnce
    BY Zenon
  <2> DEFINE deletes == {i \in DOMAIN netQ : netQ[i][1] = "Delete"}
             dying == ({"timer"} \X timer) \cup ({"event"} \X deletes)
                        \cup ({"destructor"} \X (1..deleted))
  <2>1. netQ \in Seq(NetEvent)
    BY QueueTypes, Zenon
  <2>2. CASE Alive
    <3>1. DOMAIN netQ = 1..Len(netQ) /\ (netQ # <<>> => 1 \in DOMAIN netQ)
      BY <2>1
    <3>2. deletes = {} /\ timer = {} /\ deleted = 0 /\ ~Unreferenced
      BY <2>2, <3>1, Zenon DEF Alive, NoDelete, Unreferenced
    <3>3. 1..deleted = {} /\ deleted # 1
      BY <3>2
    <3>4. dying = {}
      BY <3>2, <3>3, Zenon
    <3> QED
      BY <3>2, <3>3, <3>4, Zenon DEF DestroyedOnce
  <2>3. CASE Dying
    <3>1. DOMAIN netQ = {} \/ (DOMAIN netQ = {1} /\ netQ[1][1] = "Delete")
      <4>1. netQ = <<>> \/ netQ = <<<<"Delete", <<>>>>>>
        BY <2>3, Zenon DEF Dying
      <4> QED
        BY <4>1
    <3>2. Unreferenced
      BY <2>3, <3>1, Zenon DEF Dying, Unreferenced
    <3>3. \E x : dying = {x}
      <4>1. CASE timer \in {{"user"}, {"net"}} /\ netQ = <<>> /\ deleted = 0
        <5>1. deletes = {} /\ 1..deleted = {}
          BY <4>1
        <5>2. PICK th : timer = {th}
          BY <4>1, Zenon
        <5>3. dying = {<<"timer", th>>}
          BY <5>1, <5>2
        <5> QED
          BY <5>3, Zenon
      <4>2. CASE timer = {} /\ netQ = <<<<"Delete", <<>>>>>> /\ deleted = 0
        <5>1. deletes = {1} /\ 1..deleted = {}
          BY <4>2
        <5>2. dying = {<<"event", 1>>}
          BY <4>2, <5>1
        <5> QED
          BY <5>2, Zenon
      <4>3. CASE timer = {} /\ netQ = <<>> /\ deleted = 1
        <5>1. deletes = {} /\ 1..deleted = {1}
          BY <4>3
        <5>2. dying = {<<"destructor", 1>>}
          BY <4>3, <5>1
        <5> QED
          BY <5>2, Zenon
      <4> QED
        BY <2>3, <4>1, <4>2, <4>3, Zenon DEF Dying
    <3>4. deleted = 1 => netpc = "idle" /\ ~trpt.sink /\ ~trpt.reg
      BY <2>3 DEF Dying
    <3> QED
      BY <3>2, <3>3, <3>4, Zenon DEF DestroyedOnce
  <2> QED
    BY <2>2, <2>3, Zenon DEF LifeInv
<1> QED
  BY <1>1, ConnectionInvariant, ProxyLife, PTL

-----------------------------------------------------------------------------
(* The bytes between the stream and the socket *)

\* The bytes a + 1 to b, in this order.
Between(a, b) == [i \in 1..(b - a) |-> a + i]

\* The events in q carry the bytes k + 1 to n, in this order: the i-th event
\* starts where the one before it ends.
Chain(q, k, n) ==
  \E cut \in [0..Len(q) -> Nat] :
    /\ cut[0] = k /\ cut[Len(q)] = n
    /\ \A i, j \in 0..Len(q) : i <= j => cut[i] <= cut[j]
    /\ \A b \in Nat : k < b /\ b <= n => \E i \in 1..Len(q) : cut[i - 1] < b /\ b <= cut[i]
    /\ \A i \in 1..Len(q) : q[i][2] = Between(cut[i - 1], cut[i])

\* The socket, the buffer of the proxy, the network queue and the buffer of the
\* stream hold the bytes produced so far, none missing, doubled or overtaken.
Numbered ==
  \E w, k, n \in Nat :
    /\ w <= k /\ n <= produced
    /\ sock.wire = Between(0, w) /\ m_SendBuffer = Between(w, k)
    /\ Chain(netQ, k, n) /\ m_pMbSendBuf = Between(n, produced)

\* Only data events carry bytes, and the one being written none any more.
QuietInv ==
  /\ \A i \in 1..Len(netQ) : netQ[i][1] # "SendData" => netQ[i][2] = <<>>
  /\ netpc = "SendData" => netQ # <<>> /\ netQ[1][2] = <<>>

BytesInv == Numbered /\ QuietInv

\* A run of bytes is a sequence.
LEMMA BetweenIs ==
  ASSUME NEW a \in Nat, NEW b \in Nat, a <= b
  PROVE  /\ Between(a, b) \in Seq(Nat) /\ Len(Between(a, b)) = b - a
         /\ Between(a, b) = <<>> <=> a = b
<1>1. b - a \in Nat /\ \A i \in 1..(b - a) : a + i \in Nat
  OBVIOUS
<1>2. Between(a, b) \in [1..(b - a) -> Nat]
  BY <1>1, Zenon DEF Between
<1>3. Between(a, b) \in Seq(Nat)
  BY <1>1, <1>2, ListIsSeq, Zenon
<1>4. Len(Between(a, b)) = b - a
  BY <1>1 DEF Between
<1>5. \A s \in Seq(Nat) : s = <<>> <=> Len(s) = 0
  OBVIOUS
<1>6. b - a = 0 <=> a = b
  OBVIOUS
<1> QED
  BY <1>3, <1>4, <1>5, <1>6, Zenon

\* Two sequences of numbers are equal if they agree everywhere.
LEMMA SameSeq ==
  ASSUME NEW s \in Seq(Nat), NEW t \in Seq(Nat), Len(s) = Len(t),
         \A i \in 1..Len(s) : s[i] = t[i]
  PROVE  s = t
<1>1. ASSUME NEW u \in Seq(Nat) PROVE u = [i \in 1..Len(u) |-> u[i]]
  OBVIOUS
<1>2. [i \in 1..Len(s) |-> s[i]] = [i \in 1..Len(t) |-> t[i]]
  BY Zenon
<1> QED
  BY <1>1, <1>2, Zenon

\* Where the elements of two joined sequences are.
LEMMA JoinedAt ==
  ASSUME NEW s \in Seq(Nat), NEW t \in Seq(Nat), NEW i \in 1..(Len(s) + Len(t))
  PROVE  (s \o t)[i] = IF i <= Len(s) THEN s[i] ELSE t[i - Len(s)]
OBVIOUS

\* Runs that follow each other.
LEMMA BetweenJoin ==
  ASSUME NEW a \in Nat, NEW b \in Nat, NEW c \in Nat, a <= b, b <= c
  PROVE  Between(a, b) \o Between(b, c) = Between(a, c)
<1>1. PICK s, t, u : s = Between(a, b) /\ t = Between(b, c) /\ u = Between(a, c)
  BY Zenon
<1>2. /\ s \in Seq(Nat) /\ Len(s) = b - a /\ t \in Seq(Nat) /\ Len(t) = c - b
      /\ u \in Seq(Nat) /\ Len(u) = c - a
  <2>1. a <= c
    OBVIOUS
  <2> QED
    BY <1>1, <2>1, BetweenIs
<1>3. /\ \A i \in 1..(b - a) : s[i] = a + i
      /\ \A i \in 1..(c - b) : t[i] = b + i
      /\ \A i \in 1..(c - a) : u[i] = a + i
  BY <1>1, Zenon DEF Between
<1>4. PICK v : v = s \o t
  BY Zenon
<1>5. /\ v \in Seq(Nat) /\ Len(v) = Len(s) + Len(t)
      /\ \A i \in 1..Len(s) : v[i] = s[i]
      /\ \A i \in 1..Len(t) : v[Len(s) + i] = t[i]
  <2>1. v \in Seq(Nat) /\ Len(v) = Len(s) + Len(t)
    BY <1>2, <1>4, Joined, Zenon
  <2>2. \A i \in 1..(Len(s) + Len(t)) : v[i] = IF i <= Len(s) THEN s[i] ELSE t[i - Len(s)]
    BY <1>2, <1>4, JoinedAt, Zenon
  <2>3. ASSUME NEW i \in 1..Len(t)
        PROVE  /\ Len(s) + i \in 1..(Len(s) + Len(t)) /\ ~(Len(s) + i <= Len(s))
               /\ (Len(s) + i) - Len(s) = i
    BY <1>2
  <2>4. \A i \in 1..Len(s) : i \in 1..(Len(s) + Len(t)) /\ i <= Len(s)
    BY <1>2
  <2> QED
    BY <2>1, <2>2, <2>3, <2>4, Zenon
<1>6. Len(v) = c - a /\ \A i \in 1..(c - a) : v[i] = u[i]
  <2>1. Len(v) = c - a
    BY <1>2, <1>5
  <2>2. ASSUME NEW i \in 1..(c - a) PROVE v[i] = u[i]
    <3>1. CASE i <= b - a
      BY <1>2, <1>3, <1>5, <3>1
    <3>2. CASE ~(i <= b - a)
      <4>1. i - (b - a) \in 1..(c - b) /\ (b - a) + (i - (b - a)) = i
        BY <3>2
      <4>2. v[i] = t[i - (b - a)] /\ t[i - (b - a)] = b + (i - (b - a))
        BY <1>2, <1>3, <1>5, <4>1
      <4> QED
        BY <1>3, <4>2
    <3> QED
      BY <3>1, <3>2, Zenon
  <2> QED
    BY <2>1, <2>2, Zenon
<1>7. s \o t = u
  BY <1>2, <1>4, <1>5, <1>6, SameSeq
<1> QED
  BY <1>1, <1>7, Zenon

\* The two pieces of a sequence.
LEMMA CutAt ==
  ASSUME NEW s \in Seq(Nat), NEW n \in 0..Len(s)
  PROVE  /\ SubSeq(s, n + 1, Len(s)) \in Seq(Nat)
         /\ Len(SubSeq(s, n + 1, Len(s))) = Len(s) - n
         /\ \A i \in 1..(Len(s) - n) : SubSeq(s, n + 1, Len(s))[i] = s[n + i]
         /\ \A i \in 1..n : SubSeq(s, 1, n)[i] = s[i]
<1>1. SubSeq(s, n + 1, Len(s)) \in Seq(Nat)
  BY CutOff, Zenon
<1>2. Len(SubSeq(s, n + 1, Len(s))) = Len(s) - n
  OBVIOUS
<1>3. ASSUME NEW i \in 1..(Len(s) - n) PROVE SubSeq(s, n + 1, Len(s))[i] = s[n + i]
  OBVIOUS
<1>4. ASSUME NEW i \in 1..n PROVE SubSeq(s, 1, n)[i] = s[i]
  OBVIOUS
<1> QED
  BY <1>1, <1>2, <1>3, <1>4, Zenon

\* A run cut in two.
LEMMA BetweenCut ==
  ASSUME NEW a \in Nat, NEW c \in Nat, a <= c, NEW n \in 0..(c - a)
  PROVE  /\ SubSeq(Between(a, c), 1, n) = Between(a, a + n)
         /\ SubSeq(Between(a, c), n + 1, Len(Between(a, c))) = Between(a + n, c)
<1>1. PICK s, t, u : s = Between(a, a + n) /\ t = Between(a + n, c) /\ u = Between(a, c)
  BY Zenon
<1>2. /\ s \in Seq(Nat) /\ Len(s) = n /\ t \in Seq(Nat) /\ Len(t) = c - a - n
      /\ u \in Seq(Nat) /\ Len(u) = c - a
  <2>1. a + n \in Nat /\ a <= a + n /\ a + n <= c /\ (a + n) - a = n /\ c - (a + n) = c - a - n
    OBVIOUS
  <2> QED
    BY <1>1, <2>1, BetweenIs
<1>3. /\ \A i \in 1..n : s[i] = a + i
      /\ \A i \in 1..(c - a - n) : t[i] = a + n + i
      /\ \A i \in 1..(c - a) : u[i] = a + i
  BY <1>1 DEF Between
<1>4. PICK x, y : x = SubSeq(u, 1, n) /\ y = SubSeq(u, n + 1, Len(u))
  BY Zenon
<1>5. x \in Seq(Nat) /\ Len(x) = n /\ \A i \in 1..n : x[i] = u[i]
  <2>1. n \in 0..Len(u)
    BY <1>2, Zenon
  <2> QED
    BY <1>2, <1>4, <2>1, CutOff, CutAt, Zenon
<1>6. y \in Seq(Nat) /\ Len(y) = c - a - n /\ \A i \in 1..(c - a - n) : y[i] = u[n + i]
  <2>1. n \in 0..Len(u)
    BY <1>2, Zenon
  <2>2. /\ y \in Seq(Nat) /\ Len(y) = Len(u) - n
        /\ \A i \in 1..(Len(u) - n) : y[i] = u[n + i]
    BY <1>2, <1>4, <2>1, CutAt, Zenon
  <2> QED
    BY <1>2, <2>2, Zenon
<1>7. x = s
  <2>1. \A i \in 1..n : i \in 1..(c - a)
    OBVIOUS
  <2>2. \A i \in 1..Len(x) : x[i] = s[i]
    BY <1>3, <1>5, <2>1, Zenon
  <2> QED
    BY <1>2, <1>5, <2>2, SameSeq, Zenon
<1>8. y = t
  <2>1. \A i \in 1..(c - a - n) : n + i \in 1..(c - a) /\ a + (n + i) = a + n + i
    OBVIOUS
  <2>2. \A i \in 1..Len(y) : y[i] = t[i]
    BY <1>3, <1>6, <2>1, Zenon
  <2> QED
    BY <1>2, <1>6, <2>2, SameSeq, Zenon
<1> QED
  BY <1>1, <1>4, <1>7, <1>8, Zenon

\* An event with the bytes that come next is appended.
LEMMA ChainAppend ==
  ASSUME NEW q \in Seq(NetEvent), NEW e \in NetEvent, NEW k, NEW n \in Nat,
         NEW m \in Nat, n <= m, Chain(q, k, n), e[2] = Between(n, m)
  PROVE  Chain(Append(q, e), k, m)
<1>1. PICK cut \in [0..Len(q) -> Nat] :
        /\ cut[0] = k /\ cut[Len(q)] = n
        /\ \A i, j \in 0..Len(q) : i <= j => cut[i] <= cut[j]
        /\ \A b \in Nat : k < b /\ b <= n => \E i \in 1..Len(q) : cut[i - 1] < b /\ b <= cut[i]
        /\ \A i \in 1..Len(q) : q[i][2] = Between(cut[i - 1], cut[i])
  BY Zenon DEF Chain
<1>2. PICK r, l : r = Append(q, e) /\ l = Len(q)
  BY Zenon
<1>3. /\ l \in Nat /\ Len(r) = l + 1 /\ r[l + 1] = e
      /\ \A i \in 1..l : r[i] = q[i]
  BY <1>2
<1>4. PICK d : d = [i \in 0..(l + 1) |-> IF i = l + 1 THEN m ELSE cut[i]]
  BY Zenon
<1>5. /\ d[l + 1] = m /\ \A i \in 0..l : d[i] = cut[i]
      /\ d \in [0..Len(r) -> Nat]
  <2>1. l + 1 \in 0..(l + 1) /\ \A i \in 0..l : i \in 0..(l + 1) /\ i # l + 1
    BY <1>3
  <2>2. \A i \in 0..(l + 1) : i # l + 1 => i \in 0..l
    BY <1>3
  <2>3. \A i \in 0..(l + 1) : (IF i = l + 1 THEN m ELSE cut[i]) \in Nat
    BY <1>2, <2>2, Zenon
  <2> QED
    BY <1>3, <1>4, <2>1, <2>3, Zenon
<1>6. d[0] = k /\ d[l] = n /\ d[Len(r)] = m
  BY <1>1, <1>2, <1>3, <1>5
<1>7. \A i \in 1..Len(r) : r[i][2] = Between(d[i - 1], d[i])
  <2> SUFFICES ASSUME NEW i \in 1..Len(r) PROVE r[i][2] = Between(d[i - 1], d[i])
    OBVIOUS
  <2>1. CASE i = l + 1
    <3>1. i - 1 = l
      BY <1>3, <2>1
    <3> QED
      BY <1>3, <1>5, <1>6, <2>1, <3>1, Zenon
  <2>2. CASE i # l + 1
    <3>1. i \in 1..l /\ i \in 0..l /\ i - 1 \in 0..l
      BY <1>3, <2>2
    <3> QED
      BY <1>1, <1>2, <1>3, <1>5, <3>1, Zenon
  <2> QED
    BY <2>1, <2>2, Zenon
<1>8. \A i, j \in 0..Len(r) : i <= j => d[i] <= d[j]
  <2> SUFFICES ASSUME NEW i \in 0..Len(r), NEW j \in 0..Len(r), i <= j PROVE d[i] <= d[j]
    OBVIOUS
  <2>1. CASE j = l + 1 /\ i = l + 1
    <3>1. d[i] = m /\ d[j] = m /\ m <= m
      BY <1>5, <2>1
    <3> QED
      BY <3>1
  <2>2. CASE j = l + 1 /\ i # l + 1
    <3>1. i \in 0..l /\ l \in 0..l /\ i <= l
      BY <1>3, <2>2
    <3>2. d[i] = cut[i] /\ cut[i] <= n /\ cut[i] \in Nat /\ d[j] = m
      BY <1>1, <1>2, <1>5, <2>2, <3>1, Zenon
    <3> QED
      BY <3>2
  <2>3. CASE j # l + 1
    <3>1. i \in 0..l /\ j \in 0..l
      BY <1>3, <2>3
    <3> QED
      BY <1>1, <1>2, <1>5, <3>1, Zenon
  <2> QED
    BY <2>1, <2>2, <2>3, Zenon
<1>9. \A b \in Nat : k < b /\ b <= m => \E i \in 1..Len(r) : d[i - 1] < b /\ b <= d[i]
  <2> SUFFICES ASSUME NEW b \in Nat, k < b, b <= m
               PROVE  \E i \in 1..Len(r) : d[i - 1] < b /\ b <= d[i]
    OBVIOUS
  <2>1. CASE b <= n
    <3>1. PICK i \in 1..l : cut[i - 1] < b /\ b <= cut[i]
      BY <1>1, <1>2, <2>1, Zenon
    <3>2. i \in 1..Len(r) /\ i \in 0..l /\ i - 1 \in 0..l
      BY <1>3
    <3> QED
      BY <1>5, <3>1, <3>2, Zenon
  <2>2. CASE ~(b <= n)
    <3>1. n < b
      BY <2>2
    <3>2. l + 1 \in 1..Len(r) /\ (l + 1) - 1 = l
      BY <1>3
    <3> QED
      BY <1>5, <1>6, <3>1, <3>2, Zenon
  <2> QED
    BY <2>1, <2>2, Zenon
<1>10. Chain(r, k, m)
  BY <1>5, <1>6, <1>7, <1>8, <1>9, Zenon DEF Chain
<1> QED
  BY <1>2, <1>10, Zenon

\* The first event of a chain carries the first bytes.  The rest is a chain
\* with the event taken, or with an empty one in its place.
LEMMA ChainTail ==
  ASSUME NEW q \in Seq(NetEvent), q # <<>>, NEW k \in Nat, NEW n \in Nat, Chain(q, k, n)
  PROVE  \E l \in Nat :
           /\ k <= l /\ q[1][2] = Between(k, l) /\ Chain(Tail(q), l, n)
           /\ Chain([q EXCEPT ![1] = <<"SendData", <<>>>>], l, n)
<1>1. PICK cut \in [0..Len(q) -> Nat] :
        /\ cut[0] = k /\ cut[Len(q)] = n
        /\ \A i, j \in 0..Len(q) : i <= j => cut[i] <= cut[j]
        /\ \A b \in Nat : k < b /\ b <= n => \E i \in 1..Len(q) : cut[i - 1] < b /\ b <= cut[i]
        /\ \A i \in 1..Len(q) : q[i][2] = Between(cut[i - 1], cut[i])
  BY Zenon DEF Chain
<1>2. PICK h, r, t : h = Len(q) /\ r = Tail(q) /\ t = [q EXCEPT ![1] = <<"SendData", <<>>>>]
  BY Zenon
<1>3. /\ h \in Nat /\ h >= 1 /\ Len(r) = h - 1 /\ Len(t) = h
      /\ \A i \in 1..(h - 1) : r[i] = q[i + 1]
      /\ \A i \in 1..h : i # 1 => t[i] = q[i]
      /\ t[1] = <<"SendData", <<>>>>
  BY <1>2
<1>4. PICK l : l = cut[1]
  BY Zenon
<1>5. l \in Nat /\ k <= l /\ q[1][2] = Between(k, l)
  <2>1. 1 \in 1..h /\ 1 - 1 = 0 /\ 1 \in 0..h
    BY <1>3
  <2> QED
    BY <1>1, <1>2, <1>4, <2>1
<1>6. Chain(r, l, n)
  <2>1. PICK d : d = [i \in 0..(h - 1) |-> cut[i + 1]]
    BY Zenon
  <2>2. /\ d \in [0..Len(r) -> Nat] /\ \A i \in 0..(h - 1) : d[i] = cut[i + 1]
    <3>1. \A i \in 0..(h - 1) : i + 1 \in 0..h
      BY <1>3
    <3>2. \A i \in 0..(h - 1) : cut[i + 1] \in Nat
      BY <1>2, <3>1, Zenon
    <3> QED
      BY <1>3, <2>1, <3>2, Zenon
  <2>3. d[0] = l /\ d[Len(r)] = n
    BY <1>1, <1>2, <1>3, <1>4, <2>2
  <2>4. \A i \in 1..Len(r) : r[i][2] = Between(d[i - 1], d[i])
    <3> SUFFICES ASSUME NEW i \in 1..Len(r) PROVE r[i][2] = Between(d[i - 1], d[i])
      OBVIOUS
    <3>1. /\ i \in 1..(h - 1) /\ i \in 0..(h - 1) /\ i - 1 \in 0..(h - 1)
          /\ i + 1 \in 1..h /\ (i + 1) - 1 = i /\ (i - 1) + 1 = i
      BY <1>3
    <3>2. d[i] = cut[i + 1] /\ d[i - 1] = cut[i] /\ r[i] = q[i + 1]
      BY <1>3, <2>2, <3>1
    <3>3. q[i + 1][2] = Between(cut[i], cut[i + 1])
      BY <1>1, <1>2, <3>1
    <3> QED
      BY <3>2, <3>3, Zenon
  <2>5. \A i, j \in 0..Len(r) : i <= j => d[i] <= d[j]
    <3> SUFFICES ASSUME NEW i \in 0..(h - 1), NEW j \in 0..(h - 1), i <= j PROVE d[i] <= d[j]
      BY <1>3, Zenon
    <3>1. i + 1 \in 0..h /\ j + 1 \in 0..h /\ i + 1 <= j + 1
      BY <1>3
    <3> QED
      BY <1>1, <1>2, <2>2, <3>1, Zenon
  <2>6. \A b \in Nat : l < b /\ b <= n => \E i \in 1..Len(r) : d[i - 1] < b /\ b <= d[i]
    <3> SUFFICES ASSUME NEW b \in Nat, l < b, b <= n
                 PROVE  \E i \in 1..Len(r) : d[i - 1] < b /\ b <= d[i]
      OBVIOUS
    <3>1. k < b
      BY <1>5
    <3>2. PICK i \in 1..h : cut[i - 1] < b /\ b <= cut[i]
      BY <1>1, <1>2, <3>1, Zenon
    <3>3. i # 1
      BY <1>4, <1>5, <3>2
    <3>4. /\ i - 1 \in 1..Len(r) /\ i - 1 \in 0..(h - 1) /\ (i - 1) - 1 \in 0..(h - 1)
          /\ (i - 1) + 1 = i /\ ((i - 1) - 1) + 1 = i - 1
      <4>1. h \in Nat /\ Len(r) = h - 1
        BY <1>3, Zenon
      <4>2. i - 1 \in 1..(h - 1) /\ (i - 1) + 1 = i /\ ((i - 1) - 1) + 1 = i - 1
        BY <3>3, <4>1
      <4>3. i - 1 \in 0..(h - 1) /\ (i - 1) - 1 \in 0..(h - 1)
        BY <3>3, <4>1
      <4> QED
        BY <4>1, <4>2, <4>3, Zenon
    <3>5. d[(i - 1) - 1] = cut[i - 1] /\ d[i - 1] = cut[i]
      BY <2>2, <3>4, Zenon
    <3> QED
      BY <3>2, <3>4, <3>5, Zenon
  <2> QED
    BY <2>2, <2>3, <2>4, <2>5, <2>6, Zenon DEF Chain
<1>7. Chain(t, l, n)
  <2>1. PICK d : d = [cut EXCEPT ![0] = l]
    BY Zenon
  <2>2. /\ d \in [0..Len(t) -> Nat] /\ d[0] = l /\ \A i \in 1..h : d[i] = cut[i]
    <3>1. 0 \in 0..h /\ \A i \in 1..h : i \in 0..h /\ i # 0
      BY <1>3
    <3> QED
      BY <1>2, <1>3, <1>5, <2>1, <3>1, Zenon
  <2>3. d[Len(t)] = n
    BY <1>1, <1>2, <1>3, <2>2
  <2>4. \A i \in 1..Len(t) : t[i][2] = Between(d[i - 1], d[i])
    <3> SUFFICES ASSUME NEW i \in 1..Len(t) PROVE t[i][2] = Between(d[i - 1], d[i])
      OBVIOUS
    <3>1. CASE i = 1
      <4>1. Between(l, l) = <<>>
        <5>1. l <= l
          BY <1>5
        <5> QED
          BY <1>5, <5>1, BetweenIs, Zenon
      <4>2. d[i] = l /\ d[i - 1] = l /\ t[i][2] = <<>>
        BY <1>3, <1>4, <2>2, <3>1
      <4> QED
        BY <4>1, <4>2, Zenon
    <3>2. CASE i # 1
      <4>1. i \in 1..h /\ i - 1 \in 1..h
        BY <1>3, <3>2
      <4> QED
        BY <1>1, <1>2, <1>3, <2>2, <3>2, <4>1, Zenon
    <3> QED
      BY <3>1, <3>2, Zenon
  <2>5. \A i, j \in 0..Len(t) : i <= j => d[i] <= d[j]
    <3> SUFFICES ASSUME NEW i \in 0..h, NEW j \in 0..h, i <= j PROVE d[i] <= d[j]
      BY <1>3, Zenon
    <3>1. CASE i = 0 /\ j = 0
      BY <1>5, <2>2, <3>1
    <3>2. CASE i = 0 /\ j # 0
      <4>1. 1 \in 0..h /\ 1 <= j /\ j \in 1..h
        BY <1>3, <3>2
      <4> QED
        BY <1>1, <1>2, <1>4, <2>2, <3>2, <4>1, Zenon
    <3>3. CASE i # 0
      <4>1. i \in 1..h /\ j \in 1..h
        BY <1>3, <3>3
      <4> QED
        BY <1>1, <1>2, <2>2, <4>1, Zenon
    <3> QED
      BY <3>1, <3>2, <3>3, Zenon
  <2>6. \A b \in Nat : l < b /\ b <= n => \E i \in 1..Len(t) : d[i - 1] < b /\ b <= d[i]
    <3> SUFFICES ASSUME NEW b \in Nat, l < b, b <= n
                 PROVE  \E i \in 1..Len(t) : d[i - 1] < b /\ b <= d[i]
      OBVIOUS
    <3>1. k < b
      BY <1>5
    <3>2. PICK i \in 1..h : cut[i - 1] < b /\ b <= cut[i]
      BY <1>1, <1>2, <3>1, Zenon
    <3>3. i # 1
      BY <1>4, <1>5, <3>2
    <3>4. i - 1 \in 1..h
      BY <1>3, <3>3
    <3> QED
      BY <1>3, <2>2, <3>2, <3>4, Zenon
  <2> QED
    BY <2>2, <2>3, <2>4, <2>5, <2>6, Zenon DEF Chain
<1> QED
  BY <1>2, <1>5, <1>6, <1>7, Zenon

\* The bytes stay where they are.
LEMMA KeepBytes ==
  ASSUME BytesInv, sock'.wire = sock.wire,
         UNCHANGED <<m_SendBuffer, netQ, m_pMbSendBuf, produced>>,
         netpc' = "SendData" => netpc = "SendData"
  PROVE  BytesInv'
<1>1. Numbered'
  <2>1. PICK w \in Nat, k \in Nat, n \in Nat :
          /\ w <= k /\ n <= produced
          /\ sock.wire = Between(0, w) /\ m_SendBuffer = Between(w, k)
          /\ Chain(netQ, k, n) /\ m_pMbSendBuf = Between(n, produced)
    BY Zenon DEF BytesInv, Numbered
  <2>2. /\ w <= k /\ n <= produced'
        /\ sock'.wire = Between(0, w) /\ m_SendBuffer' = Between(w, k)
        /\ Chain(netQ', k, n) /\ m_pMbSendBuf' = Between(n, produced')
    BY <2>1, Zenon
  <2> QED
    BY <2>2, Zenon DEF Numbered
<1>2. QuietInv'
  BY Zenon DEF BytesInv, QuietInv
<1> QED
  BY <1>1, <1>2, Zenon DEF BytesInv

\* An event more, with bytes only if it is for data.
LEMMA QuietAppend ==
  ASSUME netQ \in Seq(NetEvent), QuietInv, NEW e \in NetEvent,
         e[1] # "SendData" => e[2] = <<>>, netQ' = Append(netQ, e), netpc' = netpc
  PROVE  QuietInv'
<1>1. PICK q, l : q = netQ' /\ l = Len(netQ)
  BY Zenon
<1>2. /\ l \in Nat /\ Len(q) = l + 1 /\ q[l + 1] = e
      /\ \A i \in 1..l : q[i] = netQ[i]
      /\ netQ # <<>> => 1 \in 1..l
  BY <1>1
<1>3. \A i \in 1..Len(q) : i # l + 1 => i \in 1..l
  BY <1>2
<1>4. q # <<>>
  BY <1>1, AppendedTo, Zenon
<1>5. \A i \in 1..l : netQ[i][1] # "SendData" => netQ[i][2] = <<>>
  BY <1>1, Zenon DEF QuietInv
<1>6. ASSUME NEW i \in 1..Len(q), q[i][1] # "SendData" PROVE q[i][2] = <<>>
  <2>1. CASE i = l + 1
    BY <1>2, <1>6, <2>1, Zenon
  <2>2. CASE i # l + 1
    BY <1>2, <1>3, <1>5, <1>6, <2>2, Zenon
  <2> QED
    BY <2>1, <2>2, Zenon
<1>7. ASSUME netpc = "SendData" PROVE q[1][2] = <<>>
  <2>1. netQ # <<>> /\ netQ[1][2] = <<>>
    BY <1>7, Zenon DEF QuietInv
  <2> QED
    BY <1>2, <2>1, Zenon
<1> QED
  BY <1>1, <1>4, <1>6, <1>7, Zenon DEF QuietInv

\* The bytes of the stream, with those of a new message, stay there or go into
\* an event.
LEMMA OfferedBytes ==
  ASSUME Inv, BytesInv, NEW buf \in Seq(Nat), produced' \in Nat, produced <= produced',
         \A n \in Nat : n <= produced /\ m_pMbSendBuf = Between(n, produced)
                          => buf = Between(n, produced'),
         \/ netQ' = netQ /\ m_pMbSendBuf' = buf
         \/ netQ' = Append(netQ, <<"SendData", buf>>) /\ m_pMbSendBuf' = <<>>,
         UNCHANGED <<sock, m_SendBuffer, netpc>>
  PROVE  BytesInv'
<1>1. PICK w \in Nat, k \in Nat, n \in Nat :
        /\ w <= k /\ n <= produced
        /\ sock.wire = Between(0, w) /\ m_SendBuffer = Between(w, k)
        /\ Chain(netQ, k, n) /\ m_pMbSendBuf = Between(n, produced)
  BY Zenon DEF BytesInv, Numbered
<1>2. netQ \in Seq(NetEvent) /\ produced \in Nat
  BY Zenon DEF Inv, SendInv, SendType
<1>3. n <= produced' /\ buf = Between(n, produced')
  BY <1>1, <1>2
<1>4. sock'.wire = Between(0, w) /\ m_SendBuffer' = Between(w, k)
  BY <1>1, Zenon
<1>5. CASE netQ' = netQ /\ m_pMbSendBuf' = buf
  <2>1. Chain(netQ', k, n) /\ m_pMbSendBuf' = Between(n, produced')
    BY <1>1, <1>3, <1>5, Zenon
  <2>2. Numbered'
    BY <1>1, <1>3, <1>4, <2>1, Zenon DEF Numbered
  <2>3. QuietInv'
    BY <1>5, Zenon DEF BytesInv, QuietInv
  <2> QED
    BY <2>2, <2>3, Zenon DEF BytesInv
<1>6. CASE netQ' = Append(netQ, <<"SendData", buf>>) /\ m_pMbSendBuf' = <<>>
  <2>1. PICK e : e = <<"SendData", buf>>
    BY Zenon
  <2>2. e \in NetEvent /\ e[1] = "SendData" /\ e[2] = buf
    BY <2>1, Zenon DEF NetEvent
  <2>3. Chain(netQ', k, produced')
    BY <1>1, <1>2, <1>3, <1>6, <2>1, <2>2, ChainAppend, Zenon
  <2>4. m_pMbSendBuf' = Between(produced', produced') /\ produced' <= produced'
    <3>1. produced' <= produced'
      OBVIOUS
    <3> QED
      BY <1>6, <3>1, BetweenIs, Zenon
  <2>5. Numbered'
    BY <1>1, <1>4, <2>3, <2>4, Zenon DEF Numbered
  <2>6. QuietInv'
    BY <1>2, <1>6, <2>1, <2>2, QuietAppend, Zenon DEF BytesInv
  <2> QED
    BY <2>5, <2>6, Zenon DEF BytesInv
<1> QED
  BY <1>5, <1>6, Zenon

\* An event without bytes may be posted.
LEMMA PostedEmpty ==
  ASSUME Inv, BytesInv, NEW type \in {"Disconnect", "Delete"},
         netQ' = netQ \/ netQ' = Append(netQ, <<type, <<>>>>),
         UNCHANGED <<sock, m_SendBuffer, m_pMbSendBuf, produced, netpc>>
  PROVE  BytesInv'
<1>1. CASE netQ' = netQ
  BY <1>1, KeepBytes, Zenon
<1>2. CASE netQ' = Append(netQ, <<type, <<>>>>)
  <2>1. PICK w \in Nat, k \in Nat, n \in Nat :
          /\ w <= k /\ n <= produced
          /\ sock.wire = Between(0, w) /\ m_SendBuffer = Between(w, k)
          /\ Chain(netQ, k, n) /\ m_pMbSendBuf = Between(n, produced)
    BY Zenon DEF BytesInv, Numbered
  <2>2. netQ \in Seq(NetEvent) /\ <<>> \in Seq(Nat)
    BY EmptySeq, Zenon DEF Inv, SendInv, SendType
  <2>3. PICK e : e = <<type, <<>>>>
    BY Zenon
  <2>4. e \in NetEvent /\ e[2] = <<>>
    BY <2>2, <2>3, Zenon DEF NetEvent
  <2>5. n <= n
    OBVIOUS
  <2>6. e[2] = Between(n, n)
    BY <2>4, <2>5, BetweenIs, Zenon
  <2>7. Chain(netQ', k, n)
    BY <1>2, <2>1, <2>2, <2>3, <2>4, <2>5, <2>6, ChainAppend, Zenon
  <2>8. Numbered'
    <3>1. /\ n <= produced' /\ sock'.wire = Between(0, w) /\ m_SendBuffer' = Between(w, k)
          /\ m_pMbSendBuf' = Between(n, produced')
      BY <2>1, Zenon
    <3> QED
      BY <2>1, <2>7, <3>1, Zenon DEF Numbered
  <2>9. QuietInv'
    BY <1>2, <2>2, <2>3, <2>4, QuietAppend, Zenon DEF BytesInv
  <2> QED
    BY <2>8, <2>9, Zenon DEF BytesInv
<1> QED
  BY <1>1, <1>2, Zenon

\* The events behind the first one.
LEMMA QuietTail ==
  ASSUME netQ \in Seq(NetEvent), netQ # <<>>, QuietInv, netpc' # "SendData",
         netQ' = Tail(netQ)
  PROVE  QuietInv'
<1>1. PICK q : q = netQ'
  BY Zenon
<1>2. \A i \in 1..Len(q) : i + 1 \in 1..Len(netQ) /\ q[i] = netQ[i + 1]
  BY <1>1
<1>3. \A i \in 1..Len(netQ) : netQ[i][1] # "SendData" => netQ[i][2] = <<>>
  BY Zenon DEF QuietInv
<1>4. \A i \in 1..Len(q) : q[i][1] # "SendData" => q[i][2] = <<>>
  BY <1>2, <1>3, Zenon
<1> QED
  BY <1>1, <1>4, Zenon DEF QuietInv

\* An event without bytes is taken.
LEMMA TakenEmpty ==
  ASSUME Inv, BytesInv, netQ # <<>>, netQ[1][2] = <<>>, netQ' = Tail(netQ),
         netpc' # "SendData", UNCHANGED <<sock, m_SendBuffer, m_pMbSendBuf, produced>>
  PROVE  BytesInv'
<1>1. PICK w \in Nat, k \in Nat, n \in Nat :
        /\ w <= k /\ n <= produced
        /\ sock.wire = Between(0, w) /\ m_SendBuffer = Between(w, k)
        /\ Chain(netQ, k, n) /\ m_pMbSendBuf = Between(n, produced)
  BY Zenon DEF BytesInv, Numbered
<1>2. netQ \in Seq(NetEvent)
  BY Zenon DEF Inv, SendInv, SendType
<1>3. PICK l \in Nat : k <= l /\ netQ[1][2] = Between(k, l) /\ Chain(Tail(netQ), l, n)
  BY <1>1, <1>2, ChainTail, Zenon
<1>4. k = l
  BY <1>3, BetweenIs, Zenon
<1>5. Numbered'
  <2>1. /\ n <= produced' /\ sock'.wire = Between(0, w) /\ m_SendBuffer' = Between(w, k)
        /\ m_pMbSendBuf' = Between(n, produced') /\ Chain(netQ', k, n)
    BY <1>1, <1>3, <1>4, Zenon
  <2> QED
    BY <1>1, <2>1, Zenon DEF Numbered
<1>6. QuietInv'
  BY <1>2, QuietTail, Zenon DEF BytesInv
<1> QED
  BY <1>5, <1>6, Zenon DEF BytesInv

\* The socket takes the first bytes of a run and the buffer keeps the others.
LEMMA WriteNumbered ==
  ASSUME SendInv, NEW w \in Nat, NEW l \in Nat, w <= l, sock.wire = Between(0, w),
         NEW s, NEW t, Write(Between(w, l), s, t),
         s = sock \/ s = [sock EXCEPT !.outEdge = FALSE]
  PROVE  \E v \in Nat : v <= l /\ sock'.wire = Between(0, v) /\ m_SendBuffer' = Between(v, l)
<1>1. PICK todo : todo = Between(w, l)
  BY Zenon
<1>2. todo \in Seq(Nat) /\ Len(todo) = l - w
  BY <1>1, BetweenIs, Zenon
<1>3. PICK n : n = Fits(todo)
  BY Zenon
<1>4. n \in 0..(l - w)
  <2>1. Room \in Nat
    BY Sizes DEF SendInv, SockType, Room
  <2> QED
    BY <1>2, <1>3, <2>1 DEF Fits
<1>5. /\ s.wire = sock.wire
      /\ s \in [wire : Seq(Nat), taken : Nat, sent : Nat, read : Nat,
                fin : BOOLEAN, err : BOOLEAN, inEdge : BOOLEAN, outEdge : BOOLEAN]
  BY Zenon DEF SendInv, SockType
<1>6. /\ sock' = [s EXCEPT !.wire = s.wire \o SubSeq(todo, 1, n)]
      /\ m_SendBuffer' = SubSeq(todo, n + 1, Len(todo))
  BY <1>1, <1>3, Zenon DEF Write
<1>7. w + n \in Nat /\ w <= w + n /\ w + n <= l /\ 0 <= w
  BY <1>4
<1>8. SubSeq(todo, 1, n) = Between(w, w + n) /\ m_SendBuffer' = Between(w + n, l)
  BY <1>1, <1>4, <1>6, BetweenCut, Zenon
<1>9. sock'.wire = Between(0, w + n)
  <2>1. sock'.wire = s.wire \o SubSeq(todo, 1, n)
    BY <1>5, <1>6, Zenon
  <2>2. sock'.wire = Between(0, w) \o Between(w, w + n)
    BY <1>5, <1>8, <2>1, Zenon
  <2>3. 0 \in Nat
    OBVIOUS
  <2> QED
    BY <1>7, <2>2, <2>3, BetweenJoin, Zenon
<1> QED
  BY <1>7, <1>8, <1>9, Zenon

\* A message joins the bytes the stream kept.
LEMMA SendMessageBytes == ASSUME Inv, BytesInv, SendMessage PROVE BytesInv'
<1>1. PICK new, buf : /\ new = [i \in 1..MessageSize |-> produced + i]
                      /\ buf = m_pMbSendBuf \o new
  BY Zenon
<1>2. /\ SendData(buf, "SendMessage") /\ produced' = produced + MessageSize
      /\ UNCHANGED <<sock, m_SendBuffer, netpc>>
  BY <1>1, Zenon DEF SendMessage, flagVars
<1>3. produced \in Nat /\ m_pMbSendBuf \in Seq(Nat)
  BY Zenon DEF Inv, SendInv, SendType
<1>4. produced' \in Nat /\ produced <= produced' /\ produced' - produced = MessageSize
  BY <1>2, <1>3, Sizes
<1>5. new = Between(produced, produced')
  BY <1>1, <1>4, Zenon DEF Between
<1>6. new \in Seq(Nat)
  BY <1>3, <1>4, <1>5, BetweenIs, Zenon
<1>7. buf \in Seq(Nat)
  BY <1>1, <1>3, <1>6, Joined, Zenon
<1>8. ASSUME NEW n \in Nat, n <= produced, m_pMbSendBuf = Between(n, produced)
      PROVE  buf = Between(n, produced')
  <2>1. Between(n, produced) \o Between(produced, produced') = Between(n, produced')
    BY <1>3, <1>4, <1>8, BetweenJoin
  <2> QED
    BY <1>1, <1>5, <1>8, <2>1, Zenon
<1>9. \/ netQ' = netQ /\ m_pMbSendBuf' = buf
      \/ netQ' = Append(netQ, <<"SendData", buf>>) /\ m_pMbSendBuf' = <<>>
  BY <1>2, Zenon DEF SendData
<1> QED
  BY <1>2, <1>4, <1>7, <1>8, <1>9, OfferedBytes, Zenon

\* The bytes the stream kept are offered again.
LEMMA AgainBytes ==
  ASSUME Inv, BytesInv, SendDataPartial \/ FireOnSend
  PROVE  BytesInv'
<1>1. /\ UNCHANGED <<sock, m_SendBuffer, netpc, produced>>
      /\ \/ netQ' = netQ /\ m_pMbSendBuf' = m_pMbSendBuf
         \/ netQ' = Append(netQ, <<"SendData", m_pMbSendBuf>>) /\ m_pMbSendBuf' = <<>>
  BY Zenon DEF SendDataPartial, FireOnSend, SendData, flagVars
<1>2. produced \in Nat /\ m_pMbSendBuf \in Seq(Nat)
  BY Zenon DEF Inv, SendInv, SendType
<1>3. produced' \in Nat /\ produced <= produced'
  BY <1>1, <1>2
<1>4. \A n \in Nat : n <= produced /\ m_pMbSendBuf = Between(n, produced)
                       => m_pMbSendBuf = Between(n, produced')
  BY <1>1, Zenon
<1> QED
  BY <1>1, <1>2, <1>3, <1>4, OfferedBytes, Zenon

\* The other steps of the user thread post at most an event without bytes.
LEMMA UserBytes ==
  ASSUME Inv, BytesInv,
         \/ Close \/ FireOnConnectIndication \/ FireOnReceive \/ FireOnDisconnect
         \/ OnTimerUser
  PROVE  BytesInv'
<1>1. UNCHANGED <<sock, m_SendBuffer, m_pMbSendBuf, produced, netpc>>
  BY Zenon DEF Close, FireOnConnectIndication, FireOnReceive, FireOnDisconnect,
     OnTimerUser, flagVars, streamVars
<1>2. \/ netQ' = netQ \/ netQ' = Append(netQ, <<"Disconnect", <<>>>>)
      \/ netQ' = Append(netQ, <<"Delete", <<>>>>)
  BY Zenon DEF Close, FireOnConnectIndication, FireOnReceive, FireOnDisconnect,
     OnTimerUser, Disconnect
<1> QED
  BY <1>1, <1>2, PostedEmpty, Zenon

\* The event at the head is emptied while its bytes are written.
LEMMA QuietReplace ==
  ASSUME netQ \in Seq(NetEvent), netQ # <<>>, QuietInv,
         netQ' = [netQ EXCEPT ![1] = <<"SendData", <<>>>>]
  PROVE  QuietInv'
<1>1. PICK q : q = netQ'
  BY Zenon
<1>2. /\ 1 \in 1..Len(netQ) /\ Len(q) = Len(netQ) /\ q # <<>>
      /\ q[1] = <<"SendData", <<>>>> /\ \A i \in 1..Len(netQ) : i # 1 => q[i] = netQ[i]
  BY <1>1
<1>3. q[1][1] = "SendData" /\ q[1][2] = <<>>
  BY <1>2
<1>4. \A i \in 1..Len(netQ) : netQ[i][1] # "SendData" => netQ[i][2] = <<>>
  BY Zenon DEF QuietInv
<1>5. ASSUME NEW i \in 1..Len(q), q[i][1] # "SendData" PROVE q[i][2] = <<>>
  <2>1. i # 1 /\ i \in 1..Len(netQ)
    BY <1>2, <1>3, <1>5, Zenon
  <2> QED
    BY <1>2, <1>4, <1>5, <2>1, Zenon
<1> QED
  BY <1>1, <1>2, <1>3, <1>5, Zenon DEF QuietInv

\* The bytes of an event go to the socket behind those of the buffer.
LEMMA FireSendDataBytes == ASSUME Inv, BytesInv, FireSendData PROVE BytesInv'
<1>1. /\ netpc = "idle" /\ netQ # <<>> /\ UNCHANGED <<m_pMbSendBuf, produced>>
  BY Zenon DEF FireSendData, NetIdle
<1>2. PICK w \in Nat, k \in Nat, n \in Nat :
        /\ w <= k /\ n <= produced
        /\ sock.wire = Between(0, w) /\ m_SendBuffer = Between(w, k)
        /\ Chain(netQ, k, n) /\ m_pMbSendBuf = Between(n, produced)
  BY Zenon DEF BytesInv, Numbered
<1>3. netQ \in Seq(NetEvent) /\ SendInv
  BY Zenon DEF Inv, SendInv, SendType
<1>4. Head(netQ) = netQ[1]
  BY <1>1, <1>3, NetTail, Zenon
<1>5. PICK l \in Nat :
        /\ k <= l /\ netQ[1][2] = Between(k, l) /\ Chain(Tail(netQ), l, n)
        /\ Chain([netQ EXCEPT ![1] = <<"SendData", <<>>>>], l, n)
  BY <1>1, <1>2, <1>3, ChainTail, Zenon
<1>6. w <= l
  BY <1>2, <1>5
<1>7. m_SendBuffer = <<>> => w = k
  BY <1>2, BetweenIs, Zenon
<1>8. m_SendBuffer \o netQ[1][2] = Between(w, l)
  <2>1. Between(w, k) \o Between(k, l) = Between(w, l)
    BY <1>2, <1>5, BetweenJoin
  <2> QED
    BY <1>2, <1>5, <2>1, Zenon
<1>9. Write(Between(w, l), sock, trpt)
  BY <1>4, <1>5, <1>7, <1>8, Zenon DEF FireSendData, Send_i
<1>10. PICK v \in Nat : v <= l /\ sock'.wire = Between(0, v) /\ m_SendBuffer' = Between(v, l)
  BY <1>2, <1>3, <1>6, <1>9, WriteNumbered, Zenon
<1>11. \/ netQ' = Tail(netQ) /\ netpc' = netpc
       \/ netQ' = [netQ EXCEPT ![1] = <<"SendData", <<>>>>]
  BY Zenon DEF FireSendData
<1>12. Numbered'
  <2>1. Chain(netQ', l, n) /\ n <= produced' /\ m_pMbSendBuf' = Between(n, produced')
    BY <1>1, <1>2, <1>5, <1>11, Zenon
  <2> QED
    BY <1>10, <2>1, Zenon DEF Numbered
<1>13. QuietInv'
  BY <1>1, <1>3, <1>11, QuietTail, QuietReplace, Zenon DEF BytesInv
<1> QED
  BY <1>12, <1>13, Zenon DEF BytesInv

\* OnSend goes on with the bytes of the buffer.
LEMMA OnOutputBytes == ASSUME Inv, BytesInv, OnOutput PROVE BytesInv'
<1>1. /\ netpc = "idle" /\ netpc' # "SendData" /\ UNCHANGED <<netQ, m_pMbSendBuf, produced>>
  BY Zenon DEF OnOutput, NetIdle, OnClose, Send_i, streamVars
<1>2. SendInv
  BY Zenon DEF Inv
<1>3. CASE sock' = [sock EXCEPT !.outEdge = FALSE] /\ UNCHANGED flagVars
  <2>1. sock'.wire = sock.wire
    BY <1>2, <1>3, Zenon DEF SendInv, SockType
  <2> QED
    BY <1>1, <1>3, <2>1, KeepBytes, Zenon DEF flagVars
<1>4. CASE Write(m_SendBuffer, [sock EXCEPT !.outEdge = FALSE],
                 [trpt EXCEPT !.needOnSend = FALSE])
  <2>1. PICK w \in Nat, k \in Nat, n \in Nat :
          /\ w <= k /\ n <= produced
          /\ sock.wire = Between(0, w) /\ m_SendBuffer = Between(w, k)
          /\ Chain(netQ, k, n) /\ m_pMbSendBuf = Between(n, produced)
    BY Zenon DEF BytesInv, Numbered
  <2>2. PICK s, t : /\ s = [sock EXCEPT !.outEdge = FALSE] /\ Write(m_SendBuffer, s, t)
    BY <1>4, Zenon
  <2>3. Write(Between(w, k), s, t)
    BY <2>1, <2>2, Zenon
  <2>4. PICK v \in Nat : v <= k /\ sock'.wire = Between(0, v) /\ m_SendBuffer' = Between(v, k)
    BY <1>2, <2>1, <2>2, <2>3, WriteNumbered, Zenon
  <2>5. Numbered'
    <3>1. Chain(netQ', k, n) /\ n <= produced' /\ m_pMbSendBuf' = Between(n, produced')
      BY <1>1, <2>1, Zenon
    <3> QED
      BY <2>4, <3>1, Zenon DEF Numbered
  <2>6. QuietInv'
    BY <1>1, Zenon DEF BytesInv, QuietInv
  <2> QED
    BY <2>5, <2>6, Zenon DEF BytesInv
<1> QED
  BY <1>3, <1>4, Zenon DEF OnOutput, Send_i

\* The events that are done carry no bytes.
LEMMA DoneBytes ==
  ASSUME Inv, BytesInv, Send_iDone \/ FireDisconnect \/ FireDelete
  PROVE  BytesInv'
<1>1. /\ netpc' = "idle" /\ UNCHANGED <<sock, m_SendBuffer, m_pMbSendBuf, produced>>
  BY Zenon DEF Send_iDone, FireDisconnect, FireDelete, Destroy, NetIdle, flagVars, streamVars
<1>2. netQ \in Seq(NetEvent)
  BY Zenon DEF Inv, SendInv, SendType
<1>3. CASE netQ' = netQ
  BY <1>1, <1>3, KeepBytes, Zenon
<1>4. CASE netQ' # netQ
  <2>1. /\ netQ' = Tail(netQ)
        /\ netpc = "SendData" \/ (netQ # <<>> /\ Head(netQ)[1] \in {"Disconnect", "Delete"})
    BY <1>4, Zenon DEF Send_iDone, FireDisconnect, FireDelete
  <2>2. netQ # <<>> /\ netQ[1][2] = <<>>
    <3>1. CASE netpc = "SendData"
      BY <3>1, Zenon DEF BytesInv, QuietInv
    <3>2. CASE netQ # <<>> /\ Head(netQ)[1] \in {"Disconnect", "Delete"}
      <4>1. netQ[1][1] # "SendData" /\ 1 \in 1..Len(netQ)
        BY <1>2, <3>2
      <4> QED
        BY <3>2, <4>1, Zenon DEF BytesInv, QuietInv
    <3> QED
      BY <2>1, <3>1, <3>2, Zenon
  <2> QED
    BY <1>1, <2>1, <2>2, TakenEmpty, Zenon
<1> QED
  BY <1>3, <1>4, Zenon

\* Receiving, the timer of the network thread and the peer leave the bytes alone.
LEMMA ElseBytes ==
  ASSUME Inv, BytesInv,
         \/ OnInput \/ Recv_i \/ PostOnReceive \/ PostOnDisconnect \/ OnTimerNet
         \/ Peer \/ PeerTakes \/ UNCHANGED vars
  PROVE  BytesInv'
<1>1. /\ UNCHANGED <<m_SendBuffer, netQ, m_pMbSendBuf, produced>>
      /\ netpc' = "SendData" => netpc = "SendData"
  BY Zenon DEF OnInput, Recv_i, OnClose, PostOnReceive, PostOnDisconnect, OnTimerNet,
     Destroy, Peer, PeerTakes, vars, flagVars, streamVars
<1>2. sock'.wire = sock.wire
  <2>1. sock \in [wire : Seq(Nat), taken : Nat, sent : Nat, read : Nat,
                  fin : BOOLEAN, err : BOOLEAN, inEdge : BOOLEAN, outEdge : BOOLEAN]
    BY Zenon DEF Inv, SendInv, SockType
  <2>2. CASE OnInput \/ Recv_i
    BY <2>1, <2>2, Zenon DEF OnInput, Recv_i
  <2>3. CASE Peer \/ PeerTakes
    BY <2>1, <2>3, Zenon DEF Peer, PeerTakes
  <2>4. CASE PostOnReceive \/ PostOnDisconnect \/ OnTimerNet \/ UNCHANGED vars
    BY <2>4, Zenon DEF PostOnReceive, PostOnDisconnect, OnTimerNet, Destroy, vars
  <2> QED
    BY <2>2, <2>3, <2>4, Zenon
<1> QED
  BY <1>1, <1>2, KeepBytes, Zenon

\* Where the bytes are: four runs of consecutive numbers, one behind the other.
THEOREM BytesKept == Spec => []BytesInv
<1>1. Init => BytesInv
  <2> SUFFICES ASSUME Init PROVE BytesInv
    BY Zenon
  <2>1. /\ sock.wire = <<>> /\ m_SendBuffer = <<>> /\ netQ = <<>> /\ m_pMbSendBuf = <<>>
        /\ produced = 0 /\ netpc = "idle"
    BY Zenon DEF Init
  <2>2. Between(0, 0) = <<>> /\ 0 \in Nat /\ 0 <= 0 /\ Len(<<>>) = 0
    BY BetweenIs
  <2>3. Chain(<<>>, 0, 0)
    <3>1. PICK cut : cut = [i \in 0..0 |-> 0]
      BY Zenon
    <3>2. /\ cut \in [0..0 -> Nat] /\ cut[0] = 0
          /\ \A i, j \in 0..0 : i <= j => cut[i] <= cut[j]
          /\ \A b \in Nat : ~(0 < b /\ b <= 0)
          /\ \A i \in 1..0 : FALSE
      BY <3>1
    <3> QED
      BY <2>2, <3>2, Zenon DEF Chain
  <2>4. Numbered
    BY <2>1, <2>2, <2>3, Zenon DEF Numbered
  <2>5. QuietInv
    <3>1. \A i \in 1..Len(netQ) : FALSE
      BY <2>1, <2>2
    <3> QED
      BY <2>1, <3>1, Zenon DEF QuietInv
  <2> QED
    BY <2>4, <2>5, Zenon DEF BytesInv
<1>2. ASSUME Inv, BytesInv, [Next]_vars PROVE BytesInv'
  BY <1>2, SendMessageBytes, AgainBytes, UserBytes, FireSendDataBytes, OnOutputBytes,
     DoneBytes, ElseBytes, Zenon DEF Next, UserLoop, NetLoop, NetEvents
<1> QED
  BY <1>1, <1>2, ConnectionInvariant, PTL DEF Spec

\* Where each part of the way starts and ends.
LEMMA Cuts ==
  ASSUME Inv, BytesInv
  PROVE  \E c \in [-2..(Len(netQ) + 1) -> Nat] :
           /\ c[Len(netQ) + 1] = produced
           /\ \A i \in -1..(Len(netQ) + 1) : Part(i) = Between(c[i - 1], c[i])
           /\ \A i, j \in -2..(Len(netQ) + 1) : i <= j => c[i] <= c[j]
           /\ \A b \in 1..produced :
                \E i \in -1..(Len(netQ) + 1) : c[i - 1] < b /\ b <= c[i]
<1>1. PICK w \in Nat, k \in Nat, n \in Nat :
        /\ w <= k /\ n <= produced
        /\ sock.wire = Between(0, w) /\ m_SendBuffer = Between(w, k)
        /\ Chain(netQ, k, n) /\ m_pMbSendBuf = Between(n, produced)
  BY Zenon DEF BytesInv, Numbered
<1>2. PICK l : l = Len(netQ)
  BY Zenon
<1>3. PICK cut \in [0..l -> Nat] :
        /\ cut[0] = k /\ cut[l] = n
        /\ \A i, j \in 0..l : i <= j => cut[i] <= cut[j]
        /\ \A b \in Nat : k < b /\ b <= n => \E i \in 1..l : cut[i - 1] < b /\ b <= cut[i]
        /\ \A i \in 1..l : netQ[i][2] = Between(cut[i - 1], cut[i])
  BY <1>1, <1>2, Zenon DEF Chain
<1>4. l \in Nat /\ DOMAIN netQ = 1..l /\ produced \in Nat
  BY <1>2 DEF Inv, SendInv, SendType
<1>5. PICK c : c = [i \in -2..(l + 1) |-> IF i = -2 THEN 0 ELSE IF i = -1 THEN w
                                          ELSE IF i = l + 1 THEN produced ELSE cut[i]]
  BY Zenon
<1>6. /\ c[-2] = 0 /\ c[-1] = w /\ c[l + 1] = produced
      /\ \A i \in 0..l : c[i] = cut[i] /\ c[i] \in Nat
  <2>1. /\ -2 \in -2..(l + 1) /\ -1 \in -2..(l + 1) /\ l + 1 \in -2..(l + 1)
        /\ -1 # -2 /\ l + 1 # -2 /\ l + 1 # -1
        /\ \A i \in 0..l : i \in -2..(l + 1) /\ i # -2 /\ i # -1 /\ i # l + 1
    BY <1>4
  <2> QED
    BY <1>5, <2>1, Zenon
<1>7. ASSUME NEW i \in -2..(l + 1)
      PROVE  i = -2 \/ i = -1 \/ i \in 0..l \/ i = l + 1
  BY <1>4
<1>8. c \in [-2..(l + 1) -> Nat]
  <2>1. 0 \in Nat
    OBVIOUS
  <2>2. \A i \in -2..(l + 1) : c[i] \in Nat
    BY <1>4, <1>6, <1>7, <2>1, Zenon
  <2> QED
    BY <1>5, <2>2, Zenon
<1>9. ASSUME NEW i \in -1..(l + 1) PROVE Part(i) = Between(c[i - 1], c[i])
  <2>1. CASE i = -1
    <3>1. i - 1 = -2 /\ i # 0 /\ i \notin 1..l
      BY <2>1
    <3>2. Part(i) = sock.wire
      BY <1>4, <2>1, <3>1 DEF Part
    <3> QED
      BY <1>1, <1>6, <2>1, <3>1, <3>2, Zenon
  <2>2. CASE i = 0
    <3>1. i - 1 = -1 /\ i # -1 /\ 0 \in 0..l /\ i \notin 1..l
      BY <1>4, <2>2
    <3>2. Part(i) = m_SendBuffer
      BY <1>4, <2>2, <3>1 DEF Part
    <3> QED
      BY <1>1, <1>3, <1>6, <2>2, <3>1, <3>2, Zenon
  <2>3. CASE i \in 1..l
    <3>1. i # -1 /\ i # 0 /\ i \in 0..l /\ i - 1 \in 0..l
      BY <1>4, <2>3
    <3>2. Part(i) = netQ[i][2]
      BY <1>4, <2>3, <3>1 DEF Part
    <3> QED
      BY <1>3, <1>6, <2>3, <3>1, <3>2, Zenon
  <2>4. CASE i = l + 1
    <3>1. i # -1 /\ i # 0 /\ i \notin 1..l /\ i - 1 = l /\ l \in 0..l
      BY <1>4, <2>4
    <3>2. Part(i) = m_pMbSendBuf
      BY <1>4, <3>1 DEF Part
    <3> QED
      BY <1>1, <1>3, <1>6, <2>4, <3>1, <3>2, Zenon
  <2>5. i = -1 \/ i = 0 \/ i \in 1..l \/ i = l + 1
    BY <1>4
  <2> QED
    BY <2>1, <2>2, <2>3, <2>4, <2>5, Zenon
<1>10. ASSUME NEW i \in 0..l PROVE w <= c[i] /\ c[i] <= produced
  <2>1. 0 \in 0..l /\ l \in 0..l /\ 0 <= i /\ i <= l
    BY <1>4
  <2>2. k <= c[i] /\ c[i] <= n /\ c[i] \in Nat
    BY <1>3, <1>6, <2>1, Zenon
  <2>3. w <= k /\ n <= produced /\ produced \in Nat
    BY <1>1, <1>4, Zenon
  <2> QED
    BY <2>2, <2>3
<1>11. ASSUME NEW i \in -2..(l + 1), NEW j \in -2..(l + 1), i <= j PROVE c[i] <= c[j]
  <2>1. w <= produced
    <3>1. 0 \in 0..l /\ c[0] \in Nat
      BY <1>4, <1>6
    <3> QED
      BY <1>4, <1>10, <3>1
  <2>2. CASE i = j
    <3>1. c[i] \in Nat
      BY <1>8, Zenon
    <3> QED
      BY <2>2, <3>1
  <2>3. CASE i = -2 /\ j # -2
    <3>1. c[j] \in Nat
      BY <1>8, Zenon
    <3> QED
      BY <1>6, <2>3, <3>1
  <2>4. CASE i = -1 /\ j # -1
    <3>1. j \in 0..l \/ j = l + 1
      BY <1>4, <1>11, <2>4
    <3> QED
      BY <1>6, <1>10, <2>1, <2>4, <3>1, Zenon
  <2>5. CASE i \in 0..l /\ j # i
    <3>1. j \in 0..l \/ j = l + 1
      BY <1>4, <1>11, <2>5
    <3> QED
      BY <1>3, <1>6, <1>10, <1>11, <2>5, <3>1, Zenon
  <2>6. i = l + 1 => j = i
    BY <1>4, <1>11
  <2> QED
    BY <1>7, <2>2, <2>3, <2>4, <2>5, <2>6, Zenon
<1>12. ASSUME NEW b \in 1..produced
       PROVE  \E i \in -1..(l + 1) : c[i - 1] < b /\ b <= c[i]
  <2>1. CASE b <= w
    <3>1. -1 \in -1..(l + 1) /\ (-1) - 1 = -2 /\ 0 < b
      BY <1>4
    <3> QED
      BY <1>6, <2>1, <3>1, Zenon
  <2>2. CASE w < b /\ b <= k
    <3>1. 0 \in -1..(l + 1) /\ 0 - 1 = -1 /\ 0 \in 0..l
      BY <1>4
    <3> QED
      BY <1>3, <1>6, <2>2, <3>1, Zenon
  <2>3. CASE k < b /\ b <= n
    <3>1. b \in Nat
      BY <1>4
    <3>2. PICK i \in 1..l : cut[i - 1] < b /\ b <= cut[i]
      BY <1>3, <2>3, <3>1, Zenon
    <3>3. i \in -1..(l + 1) /\ i \in 0..l /\ i - 1 \in 0..l
      BY <1>4
    <3> QED
      BY <1>6, <3>2, <3>3, Zenon
  <2>4. CASE n < b
    <3>1. l + 1 \in -1..(l + 1) /\ (l + 1) - 1 = l /\ l \in 0..l /\ b <= produced
      BY <1>4
    <3> QED
      BY <1>3, <1>6, <2>4, <3>1, Zenon
  <2>5. b <= w \/ (w < b /\ b <= k) \/ (k < b /\ b <= n) \/ n < b
    BY <1>4
  <2> QED
    BY <2>1, <2>2, <2>3, <2>4, <2>5, Zenon
<1> QED
  BY <1>2, <1>6, <1>8, <1>9, <1>11, <1>12, Zenon

\* Not one byte is lost, duplicated or overtaken between SendMessage and the
\* socket, for messages and sockets of any size and any number of bytes,
\* whatever Send_i could write and whenever the user thread read its flags.
THEOREM Ordered == Spec => []BytesInOrder
<1>1. Inv /\ BytesInv => BytesInOrder
  <2> SUFFICES ASSUME Inv, BytesInv PROVE BytesInOrder
    BY Zenon
  <2> DEFINE parts == -1..(Len(netQ) + 1)
  <2> DEFINE places == UNION {{i} \X DOMAIN Part(i) : i \in parts}
  <2> DEFINE Byte(p) == Part(p[1])[p[2]]
  <2>1. PICK c \in [-2..(Len(netQ) + 1) -> Nat] :
          /\ c[Len(netQ) + 1] = produced
          /\ \A i \in parts : Part(i) = Between(c[i - 1], c[i])
          /\ \A i, j \in -2..(Len(netQ) + 1) : i <= j => c[i] <= c[j]
          /\ \A b \in 1..produced : \E i \in parts : c[i - 1] < b /\ b <= c[i]
    BY Cuts, Zenon
  <2>2. Len(netQ) \in Nat
    BY DEF Inv, SendInv, SendType
  <2>3. ASSUME NEW i \in parts
        PROVE  /\ c[i - 1] \in Nat /\ c[i] \in Nat /\ c[i - 1] <= c[i] /\ c[i] <= produced
               /\ DOMAIN Part(i) = 1..(c[i] - c[i - 1])
               /\ \A j \in DOMAIN Part(i) : Part(i)[j] = c[i - 1] + j
    <3>1. /\ i \in -2..(Len(netQ) + 1) /\ i - 1 \in -2..(Len(netQ) + 1)
          /\ Len(netQ) + 1 \in -2..(Len(netQ) + 1) /\ i - 1 <= i /\ i <= Len(netQ) + 1
      BY <2>2
    <3> QED
      BY <2>1, <3>1, Zenon DEF Between
  <2> HIDE DEF parts
  <2>4. ASSUME NEW p \in places
        PROVE  /\ p[1] \in parts /\ p[2] \in DOMAIN Part(p[1])
               /\ Byte(p) = c[p[1] - 1] + p[2]
    <3>1. PICK i \in parts : p \in {i} \X DOMAIN Part(i)
      BY Zenon
    <3>2. \A D : p \in {i} \X D => p[1] = i /\ p[2] \in D
      OBVIOUS
    <3>3. p[1] = i /\ p[2] \in DOMAIN Part(i)
      BY <3>1, <3>2, Zenon
    <3> QED
      BY <2>3, <3>3, Zenon
  <2>5. ASSUME NEW i \in parts, NEW j \in DOMAIN Part(i)
        PROVE  /\ <<i, j>> \in places /\ Byte(<<i, j>>) = c[i - 1] + j
    <3>1. <<i, j>> \in {i} \X DOMAIN Part(i)
      BY Zenon
    <3>2. Byte(<<i, j>>) = Part(i)[j]
      BY Zenon
    <3> QED
      BY <2>3, <3>1, <3>2, Zenon
  <2> HIDE DEF places, Byte
  <2>6. ASSUME NEW p \in places PROVE Byte(p) \in 1..produced
    <3>1. PICK i, j : i = p[1] /\ j = p[2]
      BY Zenon
    <3>2. i \in parts /\ j \in 1..(c[i] - c[i - 1]) /\ Byte(p) = c[i - 1] + j
      BY <2>3, <2>4, <3>1, Zenon
    <3>3. c[i - 1] \in Nat /\ c[i] \in Nat /\ c[i] <= produced /\ produced \in Nat
      BY <2>3, <3>2, Zenon DEF Inv, SendInv, SendType
    <3> QED
      BY <3>2, <3>3
  <2>7. ASSUME NEW b \in 1..produced PROVE \E p \in places : Byte(p) = b
    <3>1. PICK i \in parts : c[i - 1] < b /\ b <= c[i]
      BY <2>1, Zenon
    <3>2. c[i - 1] \in Nat /\ c[i] \in Nat /\ produced \in Nat
      BY <2>3, Zenon DEF Inv, SendInv, SendType
    <3>3. b - c[i - 1] \in 1..(c[i] - c[i - 1]) /\ c[i - 1] + (b - c[i - 1]) = b
      BY <3>1, <3>2
    <3> QED
      BY <2>3, <2>5, <3>3, Zenon
  <2>8. ASSUME NEW p \in places, NEW q \in places,
               p[1] < q[1] \/ (p[1] = q[1] /\ p[2] < q[2])
        PROVE  Byte(p) < Byte(q)
    <3>1. PICK i, j, u, v : i = p[1] /\ j = p[2] /\ u = q[1] /\ v = q[2]
      BY Zenon
    <3>2. /\ i \in parts /\ j \in 1..(c[i] - c[i - 1]) /\ Byte(p) = c[i - 1] + j
          /\ u \in parts /\ v \in 1..(c[u] - c[u - 1]) /\ Byte(q) = c[u - 1] + v
      BY <2>3, <2>4, <3>1, Zenon
    <3>3. PICK a \in Nat, d \in Nat, e \in Nat, f \in Nat :
            a = c[i - 1] /\ d = c[i] /\ e = c[u - 1] /\ f = c[u]
      BY <2>3, <3>2, Zenon
    <3>4. CASE i < u
      <4>1. i \in -2..(Len(netQ) + 1) /\ u - 1 \in -2..(Len(netQ) + 1) /\ i <= u - 1
        BY <2>2, <3>2, <3>4 DEF parts
      <4>2. d <= e
        BY <2>1, <3>3, <4>1, Zenon
      <4>3. j \in 1..(d - a) /\ v \in 1..(f - e) /\ Byte(p) = a + j /\ Byte(q) = e + v
        BY <3>2, <3>3, Zenon
      <4>4. a + j < e + v
        BY <4>2, <4>3
      <4> QED
        BY <4>3, <4>4, Zenon
    <3>5. CASE i = u /\ j < v
      <4>1. j \in 1..(d - a) /\ v \in 1..(d - a) /\ Byte(p) = a + j /\ Byte(q) = a + v
        BY <3>2, <3>3, <3>5, Zenon
      <4>2. a + j < a + v
        BY <3>5, <4>1
      <4> QED
        BY <4>1, <4>2, Zenon
    <3> QED
      BY <2>8, <3>1, <3>4, <3>5, Zenon
  <2>9. {Byte(p) : p \in places} = 1..produced
    BY <2>6, <2>7, Zenon
  <2> QED
    BY <2>8, <2>9, Zenon DEF BytesInOrder, parts, places, Byte
<1> QED
  BY <1>1, BytesKept, ConnectionInvariant, PTL
=============================================================================
