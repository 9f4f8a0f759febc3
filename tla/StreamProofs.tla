----------------------------- MODULE StreamProofs -----------------------------
(***************************************************************************)
(* Proofs about module Stream, for every set of message lengths and every  *)
(* limit.  The inductive invariant says where the bytes of the buffer and  *)
(* the bytes still to come stand in the stream of the peer.                *)
(***************************************************************************)
EXTENDS Stream, TLAPS

\* The bytes in the buffer and on their way.
Bytes ==
  {m_pMbRcvBuf[i] : i \in 1..Len(m_pMbRcvBuf)}
    \cup {incoming[i] : i \in 1..Len(incoming)}

\* Messages do not overlap: each byte lies in its message, and a byte behind a
\* message belongs to a later one.
Disjoint ==
  /\ \A b \in Bytes : b.start <= b.at /\ b.at < b.start + b.len
                        /\ b.start + b.len <= sent + 1
  /\ \A b, c \in Bytes : c.at >= b.start + b.len => c.start >= b.start + b.len

\* The bytes to come are the last ones sent.
Coming ==
  /\ \A i \in 1..Len(incoming) : incoming[i].at = sent - Len(incoming) + i
  /\ ~m_pTransport => incoming = <<>>

\* The buffer starts with a message and has no gap; the bytes to come follow.
Framed ==
  ~kept /\ ~raised =>
    /\ \A i \in 1..Len(m_pMbRcvBuf) : m_pMbRcvBuf[i].at = m_pMbRcvBuf[1].at + i - 1
    /\ m_pMbRcvBuf # <<>> => IsHeader(m_pMbRcvBuf[1])
    /\ m_pTransport /\ ~m_bisRcvoverbuffer /\ m_pMbRcvBuf # <<>> =>
         m_pMbRcvBuf[1].at + Len(m_pMbRcvBuf) = sent - Len(incoming) + 1
    /\ m_pMbRcvBuf = <<>> /\ incoming # <<>> => IsHeader(incoming[1])

\* After a drop the buffer is over the limit and no loop runs.
Deaf ==
  /\ raised => m_bisRcvoverbuffer
  /\ m_bisRcvoverbuffer /\ ~raised =>
       ~inLoop /\ m_pMbRcvBuf # <<>> /\ Len(m_pMbRcvBuf) > m_dwRcvBufMaxLen

IInv ==
  /\ TypeOK /\ Disjoint /\ Coming /\ Framed /\ Deaf
  /\ NoMessageWaits /\ WholeMessages

-----------------------------------------------------------------------------
(* Sequences *)

\* What OnReceive and HandleMessage cut off is the rest of the sequence.
LEMMA RestOf ==
  ASSUME NEW S, NEW s \in Seq(S), NEW n \in 0..Len(s)
  PROVE  LET t == SubSeq(s, n + 1, Len(s)) IN
         /\ t \in Seq(S)
         /\ Len(t) = Len(s) - n
         /\ \A i \in 1..Len(t) : t[i] = s[n + i]
OBVIOUS

\* What they take is the beginning of the sequence.
LEMMA BeginOf ==
  ASSUME NEW S, NEW s \in Seq(S), NEW n \in 0..Len(s)
  PROVE  LET t == SubSeq(s, 1, n) IN
         /\ t \in Seq(S)
         /\ Len(t) = n
         /\ \A i \in 1..n : t[i] = s[i]
OBVIOUS

\* Appended data keeps both orders.
LEMMA Joined ==
  ASSUME NEW S, NEW s \in Seq(S), NEW t \in Seq(S)
  PROVE  /\ s \o t \in Seq(S)
         /\ Len(s \o t) = Len(s) + Len(t)
         /\ \A i \in 1..Len(s) : (s \o t)[i] = s[i]
         /\ \A i \in 1..Len(t) : (s \o t)[Len(s) + i] = t[i]
         /\ \A i \in 1..Len(s \o t) : i > Len(s) => (s \o t)[i] = t[i - Len(s)]
OBVIOUS

\* The same for bytes.
LEMMA JoinedBytes ==
  \A s, t \in Seq(Byte) :
     /\ s \o t \in Seq(Byte)
     /\ Len(s \o t) = Len(s) + Len(t)
     /\ \A i \in 1..Len(s) : (s \o t)[i] = s[i]
     /\ \A i \in 1..Len(s \o t) : i > Len(s) => (s \o t)[i] = t[i - Len(s)]
BY Joined

\* A sequence is empty when its length is 0.
LEMMA EmptyLen ==
  ASSUME NEW S, NEW s \in Seq(S)
  PROVE  /\ s = <<>> <=> Len(s) = 0
         /\ Len(s) \in Nat
OBVIOUS

\* Bytes that leave do not disturb the rest.
LEMMA BytesLeave ==
  ASSUME Disjoint, Bytes' \subseteq Bytes, sent' = sent
  PROVE  Disjoint'
BY Zenon DEF Disjoint

-----------------------------------------------------------------------------
\* A new stream satisfies the invariant.
LEMMA InitInv == Init => IInv
<1> SUFFICES ASSUME Init PROVE IInv
  BY Zenon
<1>1. TypeOK
  <2>1. m_pMbRcvBuf \in Seq(Byte) /\ incoming \in Seq(Byte) /\ sent \in Nat
    BY DEF Init
  <2>2. m_dwRcvBufMaxLen \in 0..HardLimit
    BY StreamAssumption DEF Init
  <2> QED
    BY <2>1, <2>2, Zenon DEF Init, TypeOK
<1>2. Bytes = {}
  BY DEF Init, Bytes
<1> QED
  BY <1>1, <1>2 DEF Init, IInv, Disjoint, Coming, Framed, Deaf, NoMessageWaits, WholeMessages

-----------------------------------------------------------------------------
(* User code and events that leave the buffer alone. *)

\* A smaller limit keeps a deaf stream deaf; a larger one is recorded.
LEMMA SetRcvBufferSizeInv ==
  ASSUME IInv, NEW size \in Sizes, SetRcvBufferSize(size)
  PROVE  IInv'
<1> USE DEF IInv
<1>1. m_dwRcvBufMaxLen' \in 0..HardLimit /\ raised' \in BOOLEAN
  BY StreamAssumption DEF SetRcvBufferSize, TypeOK
<1>2. TypeOK'
  BY <1>1, Zenon DEF SetRcvBufferSize, TypeOK, connVars
<1>3. Disjoint'
  BY DEF SetRcvBufferSize, Disjoint, Bytes
<1>4. Coming' /\ NoMessageWaits'
  BY Zenon DEF SetRcvBufferSize, Coming, NoMessageWaits, connVars
<1>5. Framed' /\ WholeMessages'
  BY Zenon DEF SetRcvBufferSize, Framed, WholeMessages, connVars
<1>6. Deaf'
  <2>1. m_dwRcvBufMaxLen \in Int /\ m_dwRcvBufMaxLen' \in Int /\ Len(m_pMbRcvBuf) \in Int
    BY <1>1, EmptyLen DEF TypeOK
  <2>2. raised' => m_bisRcvoverbuffer
    BY Zenon DEF SetRcvBufferSize, Deaf
  <2>3. m_bisRcvoverbuffer /\ ~raised' => ~raised /\ ~(m_dwRcvBufMaxLen' > m_dwRcvBufMaxLen)
    BY Zenon DEF SetRcvBufferSize
  <2>4. UNCHANGED <<m_bisRcvoverbuffer, inLoop, m_pMbRcvBuf>>
    BY Zenon DEF SetRcvBufferSize
  <2> QED
    BY <2>1, <2>2, <2>3, <2>4 DEF Deaf
<1> QED
  BY <1>2, <1>3, <1>4, <1>5, <1>6, Zenon

\* What a connection had not delivered is gone; the buffer is not touched.
LEMMA ConnectionGone ==
  ASSUME IInv, m_pTransport' = FALSE, connecting' \in BOOLEAN, incoming' = <<>>,
         UNCHANGED <<bufVars, inLoop, sent, history>>
  PROVE  IInv'
<1> USE DEF IInv, bufVars, history
<1>1. TypeOK'
  <2>1. incoming' \in Seq(Byte)
    OBVIOUS
  <2> QED
    BY <2>1, Zenon DEF TypeOK
<1>2. Disjoint'
  <2>1. Bytes' \subseteq Bytes
    BY DEF Bytes
  <2> QED
    BY <2>1, BytesLeave, Zenon
<1>3. Coming' /\ NoMessageWaits' /\ WholeMessages' /\ Deaf'
  BY DEF Coming, NoMessageWaits, WholeMessages, Deaf
<1>4. Framed'
  BY Zenon DEF Framed
<1> QED
  BY <1>1, <1>2, <1>3, <1>4, Zenon

\* A new transport has delivered nothing; a buffer it finds filled is recorded.
LEMMA TransportComes ==
  ASSUME IInv, SetTransportHandle, connecting' \in BOOLEAN
  PROVE  IInv'
<1> USE DEF IInv, bufVars, SetTransportHandle
<1>1. TypeOK'
  <2>1. incoming' \in Seq(Byte)
    OBVIOUS
  <2> QED
    BY <2>1, Zenon DEF TypeOK
<1>2. Disjoint'
  <2>1. Bytes' \subseteq Bytes
    BY DEF Bytes
  <2> QED
    BY <2>1, BytesLeave, Zenon
<1>3. Coming' /\ NoMessageWaits' /\ Deaf'
  BY DEF Coming, NoMessageWaits, Deaf
<1>5. WholeMessages'
  BY Zenon DEF WholeMessages
<1>4. Framed'
  BY Zenon DEF Framed
<1> QED
  BY <1>1, <1>2, <1>3, <1>4, <1>5, Zenon

-----------------------------------------------------------------------------
(* Data. *)

\* What the peer sends follows everything sent before.
LEMMA PeerSendsInv ==
  ASSUME IInv, NEW len \in Lens, PeerSends(len)
  PROVE  IInv'
<1> DEFINE new == [i \in 1..len |-> [at |-> sent + i, start |-> sent + 1, len |-> len]]
<1>0. TypeOK /\ Disjoint /\ Coming /\ Framed /\ Deaf /\ NoMessageWaits /\ WholeMessages
  BY Zenon DEF IInv
<1>1. len \in Nat \ {0} /\ sent \in Nat /\ incoming \in Seq(Byte) /\ m_pMbRcvBuf \in Seq(Byte)
  BY <1>0, StreamAssumption, Zenon DEF TypeOK
<1>2. new \in Seq(Byte) /\ Len(new) = len
  BY <1>1 DEF Byte
<1>3. \A i \in 1..len : new[i].at = sent + i /\ new[i].start = sent + 1 /\ new[i].len = len
  BY Zenon
<1>4. incoming' = incoming \o new /\ sent' = sent + len
  BY Zenon DEF PeerSends
<1>5. UNCHANGED <<connVars, bufVars, inLoop, history>> /\ m_pTransport
  BY Zenon DEF PeerSends
<1> HIDE DEF new
<1>6. /\ incoming' \in Seq(Byte)
      /\ Len(incoming') = Len(incoming) + len
      /\ \A i \in 1..Len(incoming) : incoming'[i] = incoming[i]
      /\ \A i \in 1..Len(incoming') : i > Len(incoming) => incoming'[i] = new[i - Len(incoming)]
  <2>1. /\ incoming \o new \in Seq(Byte)
        /\ Len(incoming \o new) = Len(incoming) + Len(new)
        /\ \A i \in 1..Len(incoming) : (incoming \o new)[i] = incoming[i]
        /\ \A i \in 1..Len(incoming \o new) :
             i > Len(incoming) => (incoming \o new)[i] = new[i - Len(incoming)]
    BY <1>1, <1>2, JoinedBytes, Zenon
  <2> QED
    BY <1>2, <1>4, <2>1, Zenon
<1>7. TypeOK'
  BY <1>0, <1>1, <1>4, <1>5, <1>6 DEF TypeOK, connVars, bufVars, history
<1>8. Disjoint'
  <2>1. \A b \in Bytes' : b \in Bytes \/ (b.start = sent + 1 /\ b.len = len /\ b.at > sent
                                            /\ b.at <= sent + len /\ b.at \in Nat)
    <3> SUFFICES ASSUME NEW b \in Bytes', b \notin Bytes
                 PROVE  b.start = sent + 1 /\ b.len = len /\ b.at > sent
                          /\ b.at <= sent + len /\ b.at \in Nat
      BY Zenon
    <3>1. m_pMbRcvBuf' = m_pMbRcvBuf
      BY <1>5, Zenon DEF bufVars
    <3>2. PICK i \in 1..Len(incoming') : b = incoming'[i]
      BY <3>1, Zenon DEF Bytes
    <3>3. i > Len(incoming) /\ i \in Nat /\ Len(incoming) \in Nat /\ i <= Len(incoming) + len
      <4>1. i \notin 1..Len(incoming)
        BY <1>6, <3>2, Zenon DEF Bytes
      <4> QED
        BY <1>1, <1>6, <4>1, EmptyLen
    <3>4. b = new[i - Len(incoming)] /\ i - Len(incoming) \in 1..len
      BY <1>1, <1>6, <3>2, <3>3
    <3> QED
      BY <1>1, <1>3, <3>3, <3>4, SMTT(30)
  <2>2. \A b \in Bytes : b.at \in Nat /\ b.start \in Nat /\ b.len \in Nat
    <3>1. \A b \in Bytes : b \in Byte
      BY <1>1 DEF Bytes
    <3> QED
      BY <3>1, StreamAssumption, Zenon DEF Byte
  <2>3. ASSUME NEW b \in Bytes'
        PROVE  b.start <= b.at /\ b.at < b.start + b.len /\ b.start + b.len <= sent' + 1
    BY <1>0, <1>1, <1>4, <2>1, <2>2, SMTT(30) DEF Disjoint
  <2>4. ASSUME NEW b \in Bytes', NEW c \in Bytes', c.at >= b.start + b.len
        PROVE  c.start >= b.start + b.len
    <3>1. CASE b \in Bytes /\ c \in Bytes
      BY <1>0, <2>4, <3>1, Zenon DEF Disjoint
    <3>2. CASE b \in Bytes /\ c \notin Bytes
      BY <1>0, <1>1, <2>1, <2>2, <3>2, Zenon DEF Disjoint
    <3>3. CASE b \notin Bytes /\ c \in Bytes
      BY <1>0, <1>1, <2>1, <2>2, <2>4, <3>3, SMTT(30) DEF Disjoint
    <3>4. CASE b \notin Bytes /\ c \notin Bytes
      BY <1>1, <2>1, <2>4, <3>4
    <3> QED
      BY <3>1, <3>2, <3>3, <3>4, Zenon
  <2> QED
    BY <2>3, <2>4, Zenon DEF Disjoint
<1>9. Coming'
  <2>1. ASSUME NEW i \in 1..Len(incoming')
        PROVE  incoming'[i].at = sent' - Len(incoming') + i
    <3>0. Len(incoming) \in Nat
      BY <1>1, EmptyLen, Zenon
    <3>1. CASE i \in 1..Len(incoming)
      BY <1>0, <1>1, <1>4, <1>6, <3>0, <3>1 DEF Coming
    <3>2. CASE i \notin 1..Len(incoming)
      <4>1. i > Len(incoming) /\ i - Len(incoming) \in 1..len
        BY <1>1, <1>6, <3>0, <3>2
      <4> QED
        BY <1>1, <1>3, <1>4, <1>6, <3>0, <4>1
    <3> QED
      BY <3>1, <3>2, Zenon
  <2> QED
    BY <1>5, <2>1, Zenon DEF Coming, connVars
<1>10. Framed'
  <2>1. Len(incoming') > 0 /\ (incoming # <<>> => incoming'[1] = incoming[1])
        /\ (incoming = <<>> => IsHeader(incoming'[1]))
    <3>1. Len(incoming) \in Nat /\ (incoming = <<>> <=> Len(incoming) = 0)
      BY <1>1, EmptyLen, Zenon
    <3>2. incoming = <<>> => incoming'[1] = new[1]
      BY <1>1, <1>6, <3>1
    <3> QED
      BY <1>1, <1>3, <1>6, <3>1, <3>2 DEF IsHeader
  <2>2. sent' - Len(incoming') + 1 = sent - Len(incoming) + 1
    BY <1>1, <1>4, <1>6, EmptyLen
  <2> QED
    BY <1>0, <1>5, <2>1, <2>2, Zenon DEF Framed, connVars, bufVars, history
<1>11. Deaf' /\ NoMessageWaits' /\ WholeMessages'
  BY <1>0, <1>5, Zenon DEF Deaf, NoMessageWaits, WholeMessages, connVars, bufVars, history
<1> QED
  BY <1>7, <1>8, <1>9, <1>10, <1>11, Zenon DEF IInv

\* A chunk is dropped by a deaf stream or continues its buffer.
LEMMA OnReceiveInv ==
  ASSUME IInv, NEW n \in 1..Len(incoming), OnReceive(n)
  PROVE  IInv'
<1>0. TypeOK /\ Disjoint /\ Coming /\ Framed /\ Deaf /\ NoMessageWaits /\ WholeMessages
  BY Zenon DEF IInv
<1> DEFINE chunk == SubSeq(incoming, 1, n)
           rest == SubSeq(incoming, n + 1, Len(incoming))
<1>1. /\ sent \in Nat /\ incoming \in Seq(Byte) /\ m_pMbRcvBuf \in Seq(Byte)
      /\ Len(incoming) \in Nat /\ Len(m_pMbRcvBuf) \in Nat /\ n \in Nat \ {0}
      /\ m_pMbRcvBuf = <<>> <=> Len(m_pMbRcvBuf) = 0
  BY <1>0, EmptyLen DEF TypeOK
<1>2. /\ rest \in Seq(Byte) /\ Len(rest) = Len(incoming) - n
      /\ \A i \in 1..Len(rest) : rest[i] = incoming[n + i]
  BY <1>1, RestOf
<1>3. /\ chunk \in Seq(Byte) /\ Len(chunk) = n
      /\ \A i \in 1..n : chunk[i] = incoming[i]
  BY <1>1, BeginOf
<1>4. /\ incoming' = rest /\ ~inLoop /\ m_pTransport
      /\ UNCHANGED <<connVars, m_dwRcvBufMaxLen, sent, history>>
  BY Zenon DEF OnReceive, Drop
<1>10. IF m_pMbRcvBuf # <<>> /\ Len(m_pMbRcvBuf) > m_dwRcvBufMaxLen
         THEN m_bisRcvoverbuffer' = TRUE /\ UNCHANGED <<m_pMbRcvBuf, inLoop>>
         ELSE /\ m_pMbRcvBuf' = m_pMbRcvBuf \o chunk
              /\ inLoop' = TRUE /\ UNCHANGED m_bisRcvoverbuffer
  BY Zenon DEF OnReceive
<1> HIDE DEF chunk, rest
<1>5. incoming # <<>>
  BY <1>1
<1>9. Len(incoming) \in Nat /\ Len(m_pMbRcvBuf) \in Nat /\ n \in Nat \ {0} /\ sent \in Nat
  BY <1>1, Zenon
<1>8. Coming'
  <2>1. ASSUME NEW i \in 1..Len(rest)
        PROVE  rest[i].at = sent - Len(rest) + i
    <3>1. rest[i] = incoming[n + i] /\ n + i \in 1..Len(incoming) /\ i \in Nat
      BY <1>2, <1>9
    <3>2. incoming[n + i].at = sent - Len(incoming) + (n + i)
      BY <1>0, <3>1, Zenon DEF Coming
    <3>3. Len(rest) = Len(incoming) - n
      BY <1>2, Zenon
    <3> QED
      BY <1>9, <3>1, <3>2, <3>3
  <2> QED
    BY <1>4, <2>1, Zenon DEF Coming, connVars
<1>6. CASE m_pMbRcvBuf # <<>> /\ Len(m_pMbRcvBuf) > m_dwRcvBufMaxLen
  <2>1. m_bisRcvoverbuffer' = TRUE /\ UNCHANGED <<m_pMbRcvBuf, inLoop>>
    BY <1>6, <1>10, Zenon
  <2>2. TypeOK'
    BY <1>0, <1>2, <1>4, <2>1, Zenon DEF TypeOK, connVars, history
  <2>3. Disjoint'
    <3>1. Bytes' \subseteq Bytes
      BY <1>1, <1>2, <1>4, <2>1 DEF Bytes
    <3> QED
      BY <1>0, <1>4, <3>1, BytesLeave, Zenon
  <2>4. Coming'
    BY <1>8, Zenon DEF Coming
  <2>5. Framed'
    BY <1>0, <1>4, <1>6, <2>1, Zenon DEF Framed, connVars, history
  <2>6. Deaf' /\ NoMessageWaits' /\ WholeMessages'
    BY <1>0, <1>4, <1>6, <2>1, Zenon DEF Deaf, NoMessageWaits, WholeMessages, history
  <2> QED
    BY <2>2, <2>3, <2>4, <2>5, <2>6, Zenon DEF IInv
<1>7. CASE ~(m_pMbRcvBuf # <<>> /\ Len(m_pMbRcvBuf) > m_dwRcvBufMaxLen)
  <2>1. /\ m_pMbRcvBuf' = m_pMbRcvBuf \o chunk
        /\ inLoop' = TRUE /\ UNCHANGED m_bisRcvoverbuffer
    BY <1>7, <1>10, Zenon
  <2>2. /\ m_pMbRcvBuf \o chunk \in Seq(Byte)
        /\ Len(m_pMbRcvBuf \o chunk) = Len(m_pMbRcvBuf) + Len(chunk)
        /\ \A i \in 1..Len(m_pMbRcvBuf) : (m_pMbRcvBuf \o chunk)[i] = m_pMbRcvBuf[i]
        /\ \A i \in 1..Len(m_pMbRcvBuf \o chunk) :
             i > Len(m_pMbRcvBuf) => (m_pMbRcvBuf \o chunk)[i] = chunk[i - Len(m_pMbRcvBuf)]
    BY <1>1, <1>3, JoinedBytes, Zenon
  <2>3. /\ m_pMbRcvBuf' \in Seq(Byte)
        /\ Len(m_pMbRcvBuf') = Len(m_pMbRcvBuf) + n
        /\ \A i \in 1..Len(m_pMbRcvBuf) : m_pMbRcvBuf'[i] = m_pMbRcvBuf[i]
        /\ \A i \in 1..Len(m_pMbRcvBuf') :
             i > Len(m_pMbRcvBuf) => m_pMbRcvBuf'[i] = incoming[i - Len(m_pMbRcvBuf)]
    <3>1. \A i \in 1..(Len(m_pMbRcvBuf) + n) : i > Len(m_pMbRcvBuf)
             => i - Len(m_pMbRcvBuf) \in 1..n
      BY <1>1
    <3> QED
      BY <1>1, <1>3, <2>1, <2>2, <3>1, Zenon
  <2>4. TypeOK'
    BY <1>0, <1>2, <1>4, <2>1, <2>3, Zenon DEF TypeOK, connVars, history
  <2>5. Disjoint'
    <3>1. ASSUME NEW b \in Bytes'
          PROVE  b \in Bytes
      <4>1. CASE \E i \in 1..Len(m_pMbRcvBuf') : b = m_pMbRcvBuf'[i]
        <5>1. PICK i \in 1..Len(m_pMbRcvBuf') : b = m_pMbRcvBuf'[i]
          BY <4>1, Zenon
        <5>2. CASE i \in 1..Len(m_pMbRcvBuf)
          BY <2>3, <5>1, <5>2, Zenon DEF Bytes
        <5>3. CASE i \notin 1..Len(m_pMbRcvBuf)
          <6>1. i > Len(m_pMbRcvBuf) /\ i - Len(m_pMbRcvBuf) \in 1..Len(incoming)
            BY <1>1, <2>3, <5>3
          <6> QED
            BY <2>3, <5>1, <6>1, Zenon DEF Bytes
        <5> QED
          BY <5>2, <5>3, Zenon
      <4>2. CASE \E i \in 1..Len(rest) : b = rest[i]
        <5>1. PICK i \in 1..Len(rest) : b = rest[i]
          BY <4>2, Zenon
        <5>2. n + i \in 1..Len(incoming) /\ b = incoming[n + i]
          BY <1>1, <1>2, <5>1, SMTT(30)
        <5> QED
          BY <5>2, Zenon DEF Bytes
      <4> QED
        BY <1>4, <3>1, <4>1, <4>2, Zenon DEF Bytes
    <3> QED
      BY <1>0, <1>4, <3>1, BytesLeave, Zenon
  <2>6. Coming'
    BY <1>8, Zenon DEF Coming
  <2>7. Framed'
    <3> SUFFICES ASSUME ~kept, ~raised PROVE Framed'
      BY <1>4, Zenon DEF Framed, history
    <3>1. ~m_bisRcvoverbuffer
      BY <1>0, <1>7, Zenon DEF Deaf
    <3>2. m_pMbRcvBuf' # <<>>
      BY <1>1, <2>3
    <3>3. CASE m_pMbRcvBuf = <<>>
      <4>1. /\ \A i \in 1..n : m_pMbRcvBuf'[i] = incoming[i]
            /\ Len(m_pMbRcvBuf') = n
        BY <1>1, <2>3, <3>3
      <4>2. IsHeader(incoming[1])
        BY <1>0, <1>5, <3>3, Zenon DEF Framed
      <4>3. \A i \in 1..n : m_pMbRcvBuf'[i].at = sent - Len(incoming) + i
        BY <1>0, <1>1, <4>1 DEF Coming
      <4>4. m_pMbRcvBuf'[1] = incoming[1]
        BY <1>1, <4>1
      <4> QED
        <5>1. 1 \in 1..n /\ Len(rest) = Len(incoming) - n
          BY <1>2, <1>9
        <5>2. m_pMbRcvBuf'[1].at = sent - Len(incoming) + 1
          BY <4>3, <5>1, Zenon
        <5>3. m_pMbRcvBuf'[1].at + Len(m_pMbRcvBuf') = sent - Len(rest) + 1
          BY <1>9, <4>1, <5>1, <5>2
        <5>4. \A i \in 1..Len(m_pMbRcvBuf') : m_pMbRcvBuf'[i].at = m_pMbRcvBuf'[1].at + i - 1
          BY <1>9, <4>1, <4>3, <5>2
        <5> QED
          BY <1>4, <3>2, <4>2, <4>4, <5>3, <5>4, Zenon DEF Framed
    <3>4. CASE m_pMbRcvBuf # <<>>
      <4>0. 1 \in 1..Len(m_pMbRcvBuf)
        BY <1>1, <3>4
      <4>1. m_pMbRcvBuf'[1] = m_pMbRcvBuf[1] /\ IsHeader(m_pMbRcvBuf[1])
        BY <1>0, <2>3, <3>4, <4>0, Zenon DEF Framed
      <4>2. m_pMbRcvBuf[1].at + Len(m_pMbRcvBuf) = sent - Len(incoming) + 1
        BY <1>0, <1>4, <3>1, <3>4, Zenon DEF Framed
      <4>3. m_pMbRcvBuf[1].at \in Nat
        <5>1. m_pMbRcvBuf[1] \in Byte
          BY <1>1, <4>0
        <5> QED
          BY <5>1, Zenon DEF Byte
      <4>6. m_pMbRcvBuf'[1].at = sent - Len(incoming) + 1 - Len(m_pMbRcvBuf)
        <5>1. m_pMbRcvBuf[1].at = sent - Len(incoming) + 1 - Len(m_pMbRcvBuf)
          BY <1>9, <4>2, <4>3
        <5> QED
          BY <4>1, <5>1, Zenon
      <4>4. ASSUME NEW i \in 1..Len(m_pMbRcvBuf')
            PROVE  m_pMbRcvBuf'[i].at = m_pMbRcvBuf'[1].at + i - 1
        <5>1. CASE i \in 1..Len(m_pMbRcvBuf)
          BY <1>0, <2>3, <4>1, <5>1, Zenon DEF Framed
        <5>2. CASE i \notin 1..Len(m_pMbRcvBuf)
          <6>1. i > Len(m_pMbRcvBuf) /\ i - Len(m_pMbRcvBuf) \in 1..Len(incoming) /\ i \in Nat
            BY <1>1, <2>3, <5>2
          <6>2. m_pMbRcvBuf'[i].at = sent - Len(incoming) + (i - Len(m_pMbRcvBuf))
            BY <1>0, <2>3, <6>1, Zenon DEF Coming
          <6> QED
            BY <1>9, <4>6, <6>1, <6>2
        <5> QED
          BY <5>1, <5>2, Zenon
      <4>5. m_pMbRcvBuf'[1].at + Len(m_pMbRcvBuf') = sent - Len(rest) + 1
        <5>1. Len(rest) = Len(incoming) - n /\ Len(m_pMbRcvBuf') = Len(m_pMbRcvBuf) + n
          BY <1>2, <2>3, Zenon
        <5> QED
          BY <1>9, <4>6, <5>1
      <4> QED
        BY <1>4, <3>2, <4>1, <4>4, <4>5, Zenon DEF Framed
    <3> QED
      BY <3>3, <3>4, Zenon
  <2>8. Deaf' /\ NoMessageWaits' /\ WholeMessages'
    BY <1>0, <1>4, <1>7, <2>1, Zenon DEF Deaf, NoMessageWaits, WholeMessages, history
  <2> QED
    BY <2>4, <2>5, <2>6, <2>7, <2>8, Zenon DEF IInv
<1> QED
  BY <1>6, <1>7, Zenon

-----------------------------------------------------------------------------
\* A message cut off by HandleMessage is one of the peer, and the byte behind
\* it is the first of another message.
LEMMA HandleMessageInv ==
  ASSUME IInv, HandleMessage
  PROVE  IInv'
<1>0. TypeOK /\ Disjoint /\ Coming /\ Framed /\ Deaf /\ NoMessageWaits /\ WholeMessages
  BY Zenon DEF IInv
<1>1. PICK n \in IF m_pMbRcvBuf = <<>> THEN {0} ELSE Answers(m_pMbRcvBuf) :
        /\ m_pMbRcvBuf' = SubSeq(m_pMbRcvBuf, n + 1, Len(m_pMbRcvBuf))
        /\ whole' = (whole /\ (n > 0 => IsMessage(m_pMbRcvBuf, n)))
        /\ inLoop' = (n > 0)
  BY Zenon DEF HandleMessage
<1>2. /\ inLoop
      /\ UNCHANGED <<connVars, m_dwRcvBufMaxLen, m_bisRcvoverbuffer, incoming,
                     sent, kept, raised>>
  BY Zenon DEF HandleMessage
<1>3. /\ m_pMbRcvBuf \in Seq(Byte) /\ incoming \in Seq(Byte)
      /\ Len(m_pMbRcvBuf) \in Nat /\ (m_pMbRcvBuf = <<>> <=> Len(m_pMbRcvBuf) = 0)
      /\ Len(incoming) \in Nat /\ (incoming = <<>> <=> Len(incoming) = 0)
      /\ sent \in Nat
  BY <1>0, EmptyLen, Zenon DEF TypeOK
<1>4. \A b \in Byte : b.at \in Nat /\ b.start \in Nat /\ b.len \in Nat \ {0}
  BY StreamAssumption, Zenon DEF Byte
<1>5. n \in 0..Len(m_pMbRcvBuf)
  <2>1. CASE m_pMbRcvBuf = <<>>
    BY <1>3, <2>1
  <2>2. CASE m_pMbRcvBuf # <<>>
    <3>1. m_pMbRcvBuf[1] \in Byte
      BY <1>3, <2>2
    <3>2. m_pMbRcvBuf[1].len \in Nat
      BY <1>4, <3>1, Zenon
    <3> QED
      BY <1>3, <2>2, <3>2 DEF Answers
  <2> QED
    BY <2>1, <2>2, Zenon
<1>6. /\ m_pMbRcvBuf' \in Seq(Byte) /\ Len(m_pMbRcvBuf') = Len(m_pMbRcvBuf) - n
      /\ \A i \in 1..Len(m_pMbRcvBuf') : m_pMbRcvBuf'[i] = m_pMbRcvBuf[n + i]
  BY <1>1, <1>3, <1>5, RestOf
<1>7. Len(m_pMbRcvBuf') \in Nat /\ n \in Nat
      /\ (m_pMbRcvBuf' = <<>> <=> Len(m_pMbRcvBuf') = 0)
  BY <1>5, <1>6, EmptyLen
<1>8. TypeOK'
  <2>1. whole' \in BOOLEAN /\ inLoop' \in BOOLEAN
    BY <1>0, <1>1 DEF TypeOK
  <2> QED
    BY <1>0, <1>2, <1>6, <2>1, Zenon DEF TypeOK, connVars
<1>9. Disjoint' /\ Coming'
  <2>1. ASSUME NEW i \in 1..Len(m_pMbRcvBuf')
        PROVE  m_pMbRcvBuf'[i] \in Bytes
    <3>1. n + i \in 1..Len(m_pMbRcvBuf)
      BY <1>3, <1>5, <1>6
    <3> QED
      BY <1>6, <3>1, Zenon DEF Bytes
  <2>2. Bytes' \subseteq Bytes
    BY <1>2, <2>1, Zenon DEF Bytes
  <2> QED
    BY <1>0, <1>2, <2>2, BytesLeave, Zenon DEF Coming, connVars
<1>10. Deaf'
  BY <1>0, <1>2, Zenon DEF Deaf
<1>11. n = 0 => m_pMbRcvBuf' = m_pMbRcvBuf
  BY <1>1, <1>3
<1>12. NoMessageWaits'
  <2>0. ~inLoop' => n = 0
    <3>1. ~inLoop' => ~(n > 0)
      BY <1>1, Zenon
    <3> QED
      BY <1>7, <3>1
  <2> SUFFICES ASSUME n = 0, m_pMbRcvBuf # <<>>, IsHeader(m_pMbRcvBuf[1])
               PROVE  Len(m_pMbRcvBuf) < m_pMbRcvBuf[1].len
    BY <1>11, <2>0, Zenon DEF NoMessageWaits
  <2>1. m_pMbRcvBuf[1] \in Byte
    BY <1>3
  <2>2. m_pMbRcvBuf[1].len \in Nat \ {0}
    BY <1>4, <2>1, Zenon
  <2> QED
    BY <1>3, <2>2, Zenon DEF Answers
<1>13. Framed' /\ WholeMessages'
  <2>1. CASE kept \/ raised
    BY <1>2, <2>1, Zenon DEF Framed, WholeMessages
  <2>2. CASE n = 0
    <3>0. ~(n > 0)
      BY <2>2
    <3>1. whole => whole'
      BY <1>1, <3>0, Zenon
    <3>2. WholeMessages'
      BY <1>0, <1>2, <3>1, Zenon DEF WholeMessages
    <3>3. Framed'
      BY <1>0, <1>2, <1>11, <2>2, Zenon DEF Framed, connVars
    <3> QED
      BY <3>2, <3>3, Zenon
  <2>3. CASE ~kept /\ ~raised /\ n > 0
    <3>1. m_pMbRcvBuf # <<>> /\ 1 \in 1..Len(m_pMbRcvBuf) /\ n \in 1..Len(m_pMbRcvBuf)
      BY <1>3, <1>5, <2>3
    <3>2. IsHeader(m_pMbRcvBuf[1])
          /\ \A i \in 1..Len(m_pMbRcvBuf) : m_pMbRcvBuf[i].at = m_pMbRcvBuf[1].at + i - 1
      BY <1>0, <2>3, <3>1, Zenon DEF Framed
    <3>3. m_pMbRcvBuf[1] \in Byte /\ m_pMbRcvBuf[1] \in Bytes
      BY <1>3, <3>1 DEF Bytes
    <3>4. /\ m_pMbRcvBuf[1].at \in Nat /\ m_pMbRcvBuf[1].len \in Nat
          /\ m_pMbRcvBuf[1].start = m_pMbRcvBuf[1].at
      BY <1>4, <3>2, <3>3, Zenon DEF IsHeader
    <3>5. n = m_pMbRcvBuf[1].len
      BY <1>3, <1>7, <2>3, <3>1, <3>2, <3>4 DEF Answers
    <3>6. WholeMessages'
      <4>1. \A i \in 1..n : i \in 1..Len(m_pMbRcvBuf)
        BY <1>3, <1>5
      <4>2. IsMessage(m_pMbRcvBuf, n)
        BY <3>2, <3>4, <3>5, <4>1, Zenon DEF IsMessage
      <4>3. whole
        BY <1>0, <2>3, Zenon DEF WholeMessages
      <4> QED
        BY <1>1, <4>2, <4>3, Zenon DEF WholeMessages
    <3>7. ASSUME NEW c \in Bytes, c.at = m_pMbRcvBuf[1].at + n
          PROVE  IsHeader(c)
      <4>1. c \in Byte
        BY <1>3 DEF Bytes
      <4>2. c.at \in Nat /\ c.start \in Nat
        BY <1>4, <4>1, Zenon
      <4>3. c.at = m_pMbRcvBuf[1].start + m_pMbRcvBuf[1].len
        BY <3>4, <3>5, <3>7, Zenon
      <4>4. c.start >= m_pMbRcvBuf[1].start + m_pMbRcvBuf[1].len
        BY <1>0, <3>3, <3>4, <4>2, <4>3 DEF Disjoint
      <4>5. c.start <= c.at
        BY <1>0, Zenon DEF Disjoint
      <4> QED
        BY <3>4, <4>2, <4>3, <4>4, <4>5 DEF IsHeader
    <3>8. m_pMbRcvBuf' # <<>> => n + 1 \in 1..Len(m_pMbRcvBuf) /\ 1 \in 1..Len(m_pMbRcvBuf')
      BY <1>3, <1>6, <1>7
    <3>9. m_pMbRcvBuf' # <<>> => IsHeader(m_pMbRcvBuf'[1])
      <4> SUFFICES ASSUME m_pMbRcvBuf' # <<>> PROVE IsHeader(m_pMbRcvBuf[n + 1])
        BY <1>6, <3>8, Zenon
      <4>1. m_pMbRcvBuf[n + 1] \in Bytes
        BY <3>8, Zenon DEF Bytes
      <4>2. m_pMbRcvBuf[n + 1].at = m_pMbRcvBuf[1].at + (n + 1) - 1
        BY <3>2, <3>8, Zenon
      <4>3. m_pMbRcvBuf[n + 1].at = m_pMbRcvBuf[1].at + n
        BY <1>7, <3>4, <4>2
      <4> QED
        BY <3>7, <4>1, <4>3, Zenon
    <3>10. ASSUME NEW i \in 1..Len(m_pMbRcvBuf')
           PROVE  m_pMbRcvBuf'[i].at = m_pMbRcvBuf[1].at + n + i - 1
      <4>1. n + i \in 1..Len(m_pMbRcvBuf) /\ i \in Nat
        BY <1>3, <1>6, <1>7
      <4>2. m_pMbRcvBuf'[i] = m_pMbRcvBuf[n + i]
        BY <1>6, Zenon
      <4>3. m_pMbRcvBuf[n + i].at = m_pMbRcvBuf[1].at + (n + i) - 1
        BY <3>2, <4>1, Zenon
      <4>4. m_pMbRcvBuf[n + i].at = m_pMbRcvBuf[1].at + n + i - 1
        BY <1>7, <3>4, <4>1, <4>3, SMTT(30)
      <4> QED
        BY <4>2, <4>4, Zenon
    <3>11. m_pMbRcvBuf' # <<>> => m_pMbRcvBuf'[1].at = m_pMbRcvBuf[1].at + n
      <4>1. m_pMbRcvBuf' # <<>> => m_pMbRcvBuf'[1].at = m_pMbRcvBuf[1].at + n + 1 - 1
        BY <3>8, <3>10, Zenon
      <4> QED
        BY <1>7, <3>4, <4>1
    <3>12. \A i \in 1..Len(m_pMbRcvBuf') : m_pMbRcvBuf'[i].at = m_pMbRcvBuf'[1].at + i - 1
      <4> SUFFICES ASSUME NEW i \in 1..Len(m_pMbRcvBuf')
                   PROVE  m_pMbRcvBuf'[i].at = m_pMbRcvBuf'[1].at + i - 1
        BY Zenon
      <4>1. m_pMbRcvBuf' # <<>> /\ i \in Nat
        BY <1>7
      <4> QED
        BY <1>7, <3>4, <3>10, <3>11, <4>1, Zenon
    <3>13. m_pTransport /\ ~m_bisRcvoverbuffer =>
             m_pMbRcvBuf[1].at + Len(m_pMbRcvBuf) = sent - Len(incoming) + 1
      BY <1>0, <2>3, <3>1, Zenon DEF Framed
    <3>14. m_pTransport /\ ~m_bisRcvoverbuffer /\ m_pMbRcvBuf' # <<>> =>
             m_pMbRcvBuf'[1].at + Len(m_pMbRcvBuf') = sent - Len(incoming) + 1
      <4>1. Len(m_pMbRcvBuf') = Len(m_pMbRcvBuf) - n
        BY <1>6, Zenon
      <4> QED
        BY <1>3, <1>7, <3>4, <3>11, <3>13, <4>1, SMTT(30)
    <3>15. m_pMbRcvBuf' = <<>> /\ incoming # <<>> => IsHeader(incoming[1])
      <4> SUFFICES ASSUME m_pMbRcvBuf' = <<>>, incoming # <<>>
                   PROVE  IsHeader(incoming[1])
        BY Zenon
      <4>1. 1 \in 1..Len(incoming) /\ n = Len(m_pMbRcvBuf)
        BY <1>3, <1>6, <1>7
      <4>2. m_pTransport /\ ~m_bisRcvoverbuffer
        BY <1>0, <1>2, <2>3, Zenon DEF Coming, Deaf
      <4>3. incoming[1].at = sent - Len(incoming) + 1
        BY <1>0, <4>1, Zenon DEF Coming
      <4>4. incoming[1].at = m_pMbRcvBuf[1].at + n
        BY <3>13, <4>1, <4>2, <4>3, Zenon
      <4>5. incoming[1] \in Bytes
        BY <4>1, Zenon DEF Bytes
      <4> QED
        BY <3>7, <4>4, <4>5, Zenon
    <3>16. Framed'
      BY <1>2, <3>9, <3>12, <3>14, <3>15, Zenon DEF Framed, connVars
    <3> QED
      BY <3>6, <3>16, Zenon
  <2> QED
    BY <1>7, <2>1, <2>2, <2>3
<1> QED
  BY <1>8, <1>9, <1>10, <1>12, <1>13, Zenon DEF IInv

-----------------------------------------------------------------------------
\* Every step preserves the invariant.
LEMMA NextInv == IInv /\ [Next]_vars => IInv'
<1> SUFFICES ASSUME IInv, [Next]_vars PROVE IInv'
  BY Zenon
<1>0. m_pTransport \in BOOLEAN /\ connecting \in BOOLEAN
  BY Zenon DEF IInv, TypeOK
<1>1. CASE Connect
  BY <1>1, ConnectionGone, Zenon DEF Connect
<1>2. CASE Close
  BY <1>2, ConnectionGone, Zenon DEF Close
<1>3. CASE Accepted
  BY <1>0, <1>3, TransportComes, Zenon DEF Accepted
<1>4. CASE \E size \in Sizes : SetRcvBufferSize(size)
  BY <1>4, SetRcvBufferSizeInv, Zenon
<1>5. CASE OnConnectIndication
  <2>1. CASE SetTransportHandle
    BY <1>5, <2>1, TransportComes, Zenon DEF OnConnectIndication
  <2>2. CASE UNCHANGED <<m_pTransport, bufVars, inLoop, incoming, sent, history>>
    <3>1. connecting' = FALSE
      BY <1>5, Zenon DEF OnConnectIndication
    <3>2. TypeOK'
      BY <2>2, <3>1, Zenon DEF IInv, TypeOK, bufVars, history
    <3>3. Disjoint' /\ Coming'
      BY <2>2 DEF IInv, Disjoint, Bytes, Coming, bufVars
    <3>4. Framed' /\ Deaf' /\ NoMessageWaits' /\ WholeMessages'
      BY <2>2, Zenon DEF IInv, Framed, Deaf, NoMessageWaits, WholeMessages, bufVars, history
    <3> QED
      BY <3>2, <3>3, <3>4, Zenon DEF IInv
  <2> QED
    BY <1>5, <2>1, <2>2, Zenon DEF OnConnectIndication
<1>6. CASE OnDisconnect
  BY <1>0, <1>6, ConnectionGone, Zenon DEF OnDisconnect
<1>7. CASE \E n \in 1..Len(incoming) : OnReceive(n)
  BY <1>7, OnReceiveInv, Zenon
<1>8. CASE HandleMessage
  BY <1>8, HandleMessageInv, Zenon
<1>9. CASE \E len \in Lens : PeerSends(len)
  BY <1>9, PeerSendsInv, Zenon
<1>10. CASE UNCHANGED vars
  <2>0. TypeOK'
    BY <1>10, Zenon DEF IInv, TypeOK, vars, connVars, bufVars, history
  <2>1. Disjoint' /\ Coming'
    BY <1>10, SMTT(30) DEF IInv, Disjoint, Bytes, Coming, vars, connVars, bufVars
  <2>2. Framed' /\ Deaf' /\ NoMessageWaits' /\ WholeMessages'
    BY <1>10, Zenon DEF IInv, Framed, Deaf, NoMessageWaits, WholeMessages, vars, connVars,
                 bufVars, history
  <2> QED
    BY <2>0, <2>1, <2>2, Zenon DEF IInv
<1> QED
  BY <1>1, <1>2, <1>3, <1>4, <1>5, <1>6, <1>7, <1>8, <1>9, <1>10, Zenon DEF Next

\* The invariant holds in every state of a stream.
THEOREM Invariance == Spec => []IInv
BY InitInv, NextInv, PTL DEF Spec

\* Every variable keeps its type, and SetRcvBufferSize leaves no limit above
\* 32 KiB.
THEOREM TypeCorrect == Spec => []TypeOK
<1>1. IInv => TypeOK
  BY Zenon DEF IInv
<1> QED
  BY <1>1, Invariance, PTL

\* For messages of any length, chunks of any size and any limit: as long as no
\* transport comes to a filled buffer and the limit is not raised after a drop,
\* HandleMessage is given whole messages of the peer, one after the other.
THEOREM OnlyWholeMessages == Spec => []WholeMessages
<1>1. IInv => WholeMessages
  BY Zenon DEF IInv
<1> QED
  BY <1>1, Invariance, PTL

\* When the loop of OnReceive has ended no complete message is in the buffer.
THEOREM NoneLeftBehind == Spec => []NoMessageWaits
<1>1. IInv => NoMessageWaits
  BY Zenon DEF IInv
<1> QED
  BY <1>1, Invariance, PTL

\* The first data OnReceive drops belongs to a message too long for the limit.
THEOREM DropsOnlyTooLongHolds == Spec => DropsOnlyTooLong
<1>1. ASSUME IInv, Next, m_bisRcvoverbuffer', ~m_bisRcvoverbuffer, ~kept
      PROVE  m_pMbRcvBuf # <<>> /\ m_pMbRcvBuf[1].len > m_dwRcvBufMaxLen + 1
  <2>1. PICK n \in 1..Len(incoming) : OnReceive(n)
    BY <1>1, Zenon DEF Next, Connect, Close, Accepted, SetTransportHandle, SetRcvBufferSize,
                OnConnectIndication, OnDisconnect, HandleMessage, PeerSends, bufVars
  <2>2. ~inLoop /\ m_pMbRcvBuf # <<>> /\ Len(m_pMbRcvBuf) > m_dwRcvBufMaxLen
    BY <1>1, <2>1, Zenon DEF OnReceive
  <2>3. IsHeader(m_pMbRcvBuf[1])
    BY <1>1, <2>2, Zenon DEF IInv, Deaf, Framed
  <2>4. Len(m_pMbRcvBuf) < m_pMbRcvBuf[1].len
    BY <1>1, <2>2, <2>3, Zenon DEF IInv, NoMessageWaits
  <2>5. /\ m_pMbRcvBuf \in Seq(Byte) /\ m_dwRcvBufMaxLen \in Nat
        /\ Len(m_pMbRcvBuf) \in Nat /\ (m_pMbRcvBuf = <<>> <=> Len(m_pMbRcvBuf) = 0)
    BY <1>1, StreamAssumption, EmptyLen DEF IInv, TypeOK
  <2>6. m_pMbRcvBuf[1] \in Byte
    BY <2>2, <2>5
  <2>7. m_pMbRcvBuf[1].len \in Nat
    BY <2>6, StreamAssumption, Zenon DEF Byte
  <2> QED
    BY <2>2, <2>4, <2>5, <2>7
<1>2. IInv /\ [Next]_vars =>
        [m_bisRcvoverbuffer' /\ ~m_bisRcvoverbuffer =>
           \/ kept
           \/ m_pMbRcvBuf # <<>> /\ m_pMbRcvBuf[1].len > m_dwRcvBufMaxLen + 1]_vars
  BY <1>1, Zenon
<1> QED
  BY <1>2, Invariance, PTL DEF Spec, DropsOnlyTooLong

\* From its first drop on, and until its limit is raised, a stream hands on no
\* message and keeps its buffer, whatever is closed, connected and received.
THEOREM OverflowIsFinalHolds == Spec => OverflowIsFinal
<1>1. ASSUME IInv, Next, m_bisRcvoverbuffer, ~raised, ~raised'
      PROVE  ~inLoop' /\ m_pMbRcvBuf' = m_pMbRcvBuf
  <2>1. ~inLoop /\ m_pMbRcvBuf # <<>> /\ Len(m_pMbRcvBuf) > m_dwRcvBufMaxLen
    BY <1>1, Zenon DEF IInv, Deaf
  <2>2. CASE \E n \in 1..Len(incoming) : OnReceive(n)
    BY <2>1, <2>2, Zenon DEF OnReceive
  <2>3. CASE \E size \in Sizes : SetRcvBufferSize(size)
    BY <2>1, <2>3 DEF SetRcvBufferSize
  <2>4. CASE \E len \in Lens : PeerSends(len)
    BY <2>1, <2>4 DEF PeerSends, bufVars
  <2>5. CASE Connect \/ Close \/ Accepted \/ OnConnectIndication \/ OnDisconnect
    BY <2>1, <2>5
       DEF Connect, Close, Accepted, SetTransportHandle,
           OnConnectIndication, OnDisconnect, bufVars
  <2>6. CASE HandleMessage
    BY <2>1, <2>6, Zenon DEF HandleMessage
  <2> QED
    BY <1>1, <2>2, <2>3, <2>4, <2>5, <2>6, Zenon DEF Next
<1>2. IInv /\ [Next]_vars =>
        [m_bisRcvoverbuffer /\ ~raised /\ ~raised' =>
           ~inLoop' /\ m_pMbRcvBuf' = m_pMbRcvBuf]_vars
  BY <1>1, Zenon
<1> QED
  BY <1>2, Invariance, PTL DEF Spec, OverflowIsFinal
=============================================================================
