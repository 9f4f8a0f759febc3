-------------------------------- MODULE Stream --------------------------------
(***************************************************************************)
(* The receiving side of CFSStreamBase over the life of one object, which  *)
(* may close and connect again: chunks of any size arrive, are collected   *)
(* in m_pMbRcvBuf and handed to the HandleMessage of the subclass, which   *)
(* cuts off one message at a time; over a limit arriving data is dropped.  *)
(*                                                                         *)
(* The subclass is any parser of messages that begin with their length.    *)
(* User code runs between two steps, also inside HandleMessage: it may     *)
(* close, connect and change the limit there.  Module TransportProxy shows *)
(* that a connection delivers its bytes in order and none after Close.     *)
(***************************************************************************)
EXTENDS Integers, Sequences

CONSTANTS Lens,        \* lengths of the messages the peer sends
          Sizes,       \* arguments of SetRcvBufferSize
          HardLimit,   \* 1024 * 32
          MaxSent      \* bound: bytes all peers send

ASSUME StreamAssumption ==
  /\ Lens \subseteq Nat \ {0} /\ Sizes \subseteq Nat
  /\ HardLimit \in Nat /\ MaxSent \in Nat

VARIABLES
  m_pTransport,        \* the stream has a transport
  connecting,          \* the connect of m_pConnector is under way
  m_pMbRcvBuf,         \* bytes received and not yet handled
  m_dwRcvBufMaxLen,
  m_bisRcvoverbuffer,
  inLoop,              \* OnReceive is in its while loop
  incoming,            \* bytes of this connection not yet delivered
  sent,                \* bytes sent by all peers so far
  whole,               \* every message handled was a message of the peer
  kept,                \* a transport came while bytes of another were kept
  raised               \* the limit was raised after data had been dropped

connVars == <<m_pTransport, connecting>>
bufVars == <<m_pMbRcvBuf, m_dwRcvBufMaxLen, m_bisRcvoverbuffer>>
history == <<whole, kept, raised>>
vars == <<connVars, bufVars, inLoop, incoming, sent, history>>

(* A byte knows its position, where its message starts and how long the    *)
(* message is; the parser reads the length off the first byte only.        *)
Byte == [at : Nat, start : Nat, len : Lens]

IsHeader(b) == b.at = b.start

Init ==
  /\ m_pTransport = FALSE /\ connecting = FALSE
  /\ m_pMbRcvBuf = <<>> /\ m_dwRcvBufMaxLen = HardLimit
  /\ m_bisRcvoverbuffer = FALSE
  /\ inLoop = FALSE /\ incoming = <<>> /\ sent = 0
  /\ whole = TRUE /\ kept = FALSE /\ raised = FALSE

---------------------------------------------------------------------------
(* User code. *)

SetRcvBufferSize(size) ==
  /\ m_dwRcvBufMaxLen' = IF size > HardLimit THEN HardLimit ELSE size
  /\ raised' = (raised \/ (m_bisRcvoverbuffer /\ m_dwRcvBufMaxLen' > m_dwRcvBufMaxLen))
  /\ UNCHANGED <<connVars, m_pMbRcvBuf, m_bisRcvoverbuffer, inLoop, incoming,
                 sent, whole, kept>>

\* The old connector is cancelled and the old transport disconnected; what it
\* has not delivered is gone.  The buffer stays.
Connect ==
  /\ connecting' = TRUE /\ m_pTransport' = FALSE
  /\ incoming' = <<>>
  /\ UNCHANGED <<bufVars, inLoop, sent, history>>

Close ==
  /\ m_pTransport \/ connecting
  /\ connecting' = FALSE /\ m_pTransport' = FALSE
  /\ incoming' = <<>>
  /\ UNCHANGED <<bufVars, inLoop, sent, history>>

\* A transport given to the stream, by its own connector or by the sink of an
\* acceptor.
SetTransportHandle ==
  /\ m_pTransport' = TRUE
  /\ incoming' = <<>>
  /\ kept' = (kept \/ m_pMbRcvBuf # <<>>)
  /\ UNCHANGED <<bufVars, inLoop, sent, whole, raised>>

Accepted ==
  /\ ~connecting
  /\ SetTransportHandle
  /\ UNCHANGED connecting

---------------------------------------------------------------------------
(* Events of the thread of the stream. *)

OnConnectIndication ==
  /\ ~inLoop /\ connecting
  /\ connecting' = FALSE
  /\ \/ SetTransportHandle
     \/ UNCHANGED <<m_pTransport, bufVars, inLoop, incoming, sent, history>>

OnDisconnect ==
  /\ ~inLoop /\ m_pTransport
  /\ m_pTransport' = FALSE
  /\ incoming' = <<>>
  /\ UNCHANGED <<connecting, bufVars, inLoop, sent, history>>

Drop(n) == incoming' = SubSeq(incoming, n + 1, Len(incoming))

\* Mutant: data over the limit takes the place of the buffer.
OnReceiveReplacing(n) ==
  /\ ~inLoop /\ m_pTransport
  /\ Drop(n)
  /\ IF Len(m_pMbRcvBuf) > m_dwRcvBufMaxLen
       THEN /\ m_bisRcvoverbuffer' = TRUE
            /\ m_pMbRcvBuf' = SubSeq(incoming, 1, n)
       ELSE /\ m_pMbRcvBuf' = m_pMbRcvBuf \o SubSeq(incoming, 1, n)
            /\ UNCHANGED m_bisRcvoverbuffer
  /\ inLoop' = TRUE
  /\ UNCHANGED <<connVars, m_dwRcvBufMaxLen, sent, history>>

\* Mutant: the limit is for the buffer with the new data.
OnReceiveCounting(n) ==
  /\ ~inLoop /\ m_pTransport
  /\ Drop(n)
  /\ IF Len(m_pMbRcvBuf) + n > m_dwRcvBufMaxLen
       THEN m_bisRcvoverbuffer' = TRUE /\ UNCHANGED <<m_pMbRcvBuf, inLoop>>
       ELSE /\ m_pMbRcvBuf' = m_pMbRcvBuf \o SubSeq(incoming, 1, n)
            /\ inLoop' = TRUE
            /\ UNCHANGED m_bisRcvoverbuffer
  /\ UNCHANGED <<connVars, m_dwRcvBufMaxLen, sent, history>>

\* The next n bytes arrive.  Over the limit they are dropped and the buffer
\* is not looked at.
OnReceive(n) ==
  /\ ~inLoop /\ m_pTransport
  /\ Drop(n)
  /\ IF m_pMbRcvBuf # <<>> /\ Len(m_pMbRcvBuf) > m_dwRcvBufMaxLen
       THEN m_bisRcvoverbuffer' = TRUE /\ UNCHANGED <<m_pMbRcvBuf, inLoop>>
       ELSE /\ m_pMbRcvBuf' = m_pMbRcvBuf \o SubSeq(incoming, 1, n)
            /\ inLoop' = TRUE
            /\ UNCHANGED m_bisRcvoverbuffer
  /\ UNCHANGED <<connVars, m_dwRcvBufMaxLen, sent, history>>

\* The first n bytes are one message as the peer sent it.
IsMessage(buf, n) ==
  /\ IsHeader(buf[1]) /\ n = buf[1].len
  /\ \A i \in 1..n : buf[i].at = buf[1].start + i - 1

\* What the parser may answer: with a header in front, 0 for a message that
\* is not complete or its length; anything for other bytes.
Answers(buf) ==
  IF IsHeader(buf[1])
    THEN {IF buf[1].len > Len(buf) THEN 0 ELSE buf[1].len}
    ELSE 0..Len(buf)

\* Mutant: one message per OnReceive.
HandleMessageOnce ==
  /\ inLoop
  /\ \E n \in IF m_pMbRcvBuf = <<>> THEN {0} ELSE Answers(m_pMbRcvBuf) :
       /\ m_pMbRcvBuf' = SubSeq(m_pMbRcvBuf, n + 1, Len(m_pMbRcvBuf))
       /\ whole' = (whole /\ (n > 0 => IsMessage(m_pMbRcvBuf, n)))
  /\ inLoop' = FALSE
  /\ UNCHANGED <<connVars, m_dwRcvBufMaxLen, m_bisRcvoverbuffer, incoming,
                 sent, kept, raised>>

\* One turn of the loop, or its end; handled bytes leave the buffer.
HandleMessage ==
  /\ inLoop
  /\ \E n \in IF m_pMbRcvBuf = <<>> THEN {0} ELSE Answers(m_pMbRcvBuf) :
       /\ m_pMbRcvBuf' = SubSeq(m_pMbRcvBuf, n + 1, Len(m_pMbRcvBuf))
       /\ whole' = (whole /\ (n > 0 => IsMessage(m_pMbRcvBuf, n)))
       /\ inLoop' = (n > 0)
  /\ UNCHANGED <<connVars, m_dwRcvBufMaxLen, m_bisRcvoverbuffer, incoming,
                 sent, kept, raised>>

PeerSends(len) ==
  /\ m_pTransport
  /\ sent + len <= MaxSent
  /\ sent' = sent + len
  /\ incoming' = incoming \o
       [i \in 1..len |-> [at |-> sent + i, start |-> sent + 1, len |-> len]]
  /\ UNCHANGED <<connVars, bufVars, inLoop, history>>

Next ==
  \/ Connect \/ Close \/ Accepted
  \/ \E size \in Sizes : SetRcvBufferSize(size)
  \/ OnConnectIndication \/ OnDisconnect
  \/ \E n \in 1..Len(incoming) : OnReceive(n)
  \/ HandleMessage
  \/ \E len \in Lens : PeerSends(len)

Spec == Init /\ [][Next]_vars

---------------------------------------------------------------------------
(* Every variable has its type; the limit stays under 32 KiB. *)
TypeOK ==
  /\ m_pTransport \in BOOLEAN /\ connecting \in BOOLEAN
  /\ m_pMbRcvBuf \in Seq(Byte) /\ incoming \in Seq(Byte)
  /\ m_dwRcvBufMaxLen \in 0..HardLimit /\ m_bisRcvoverbuffer \in BOOLEAN
  /\ inLoop \in BOOLEAN /\ sent \in Nat
  /\ whole \in BOOLEAN /\ kept \in BOOLEAN /\ raised \in BOOLEAN

(* However the bytes are cut into chunks, and although data is dropped     *)
(* over the limit, the subclass is only given whole messages of the peer.  *)
(* There are two ways to lose this: a transport that comes while bytes of  *)
(* the one before are in the buffer, which nothing empties, and a limit    *)
(* raised after data was dropped.                                          *)
WholeMessages == whole \/ kept \/ raised

(* OnReceive leaves no complete message behind in the buffer: nothing      *)
(* would look at it before the next data arrives.                          *)
NoMessageWaits ==
  ~inLoop /\ m_pMbRcvBuf # <<>> /\ IsHeader(m_pMbRcvBuf[1])
    => Len(m_pMbRcvBuf) < m_pMbRcvBuf[1].len

(* Data is dropped only in the middle of a message that does not fit: one  *)
(* byte more than the limit still does.                                    *)
DropsOnlyTooLong ==
  [][m_bisRcvoverbuffer' /\ ~m_bisRcvoverbuffer =>
       \/ kept
       \/ m_pMbRcvBuf # <<>> /\ m_pMbRcvBuf[1].len > m_dwRcvBufMaxLen + 1]_vars

(* A stream that has once dropped data is deaf: unless the limit is        *)
(* raised nothing leaves or enters its buffer and no message is handled,   *)
(* on this connection or on a later one.                                   *)
OverflowIsFinal ==
  [][m_bisRcvoverbuffer /\ ~raised /\ ~raised' =>
       ~inLoop' /\ m_pMbRcvBuf' = m_pMbRcvBuf]_vars
=============================================================================
