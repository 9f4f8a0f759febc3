---------------------------- MODULE ProxyProofs ----------------------------
(***************************************************************************)
(* Proofs about ConnectProxies, for any number of connects, accepted       *)
(* connections and listens: proxies are not used after their deletion,     *)
(* indications reach a stream that waits for them, and the assertions of   *)
(* the proxies hold.                                                       *)
(***************************************************************************)
EXTENDS ConnectProxies, TLAPS

-----------------------------------------------------------------------------
(* Queues, as sets of events see them *)

\* An event of S is in q; at most one is; those of S come before those of U.
Has(q, S) == \E i \in 1..Len(q) : q[i] \in S
Once(q, S) == \A i, j \in 1..Len(q) : q[i] \in S /\ q[j] \in S => i = j
Before(q, S, U) == \A i, j \in 1..Len(q) : q[i] \in S /\ q[j] \in U => i < j

\* A queue of events of S is one of events of T.
LEMMA WiderQueue == ASSUME NEW S, NEW T, S \subseteq T, NEW q \in Seq(S) PROVE q \in Seq(T)
OBVIOUS

\* The first event leaves a queue.
LEMMA QueueTail ==
  ASSUME NEW T, NEW q \in Seq(T), q # <<>>, NEW S, NEW U
  PROVE  /\ Tail(q) \in Seq(T) /\ Head(q) \in T
         /\ Has(Tail(q), S) => Has(q, S)
         /\ Head(q) \notin S => (Has(q, S) => Has(Tail(q), S))
         /\ Head(q) \in S => Has(q, S)
         /\ Once(q, S) => Once(Tail(q), S)
         /\ Once(q, S) /\ Head(q) \in S => ~Has(Tail(q), S)
         /\ Before(q, S, U) => Before(Tail(q), S, U)
         /\ Before(q, S, U) /\ Head(q) \in U => ~Has(q, S)
<1>1. PICK r : r = Tail(q)
  BY Zenon
<1>2. /\ r \in Seq(T) /\ Head(q) \in T /\ Len(r) = Len(q) - 1
      /\ Len(q) \in Nat /\ Len(q) >= 1 /\ Head(q) = q[1]
      /\ \A i \in 1..Len(r) : i + 1 \in 1..Len(q) /\ r[i] = q[i + 1]
      /\ \A i \in 1..Len(q) : i # 1 => i - 1 \in 1..Len(r) /\ q[i] = r[i - 1]
  BY <1>1
<1>3. Has(r, S) => Has(q, S)
  BY <1>2, Zenon DEF Has
<1>4. ASSUME q[1] \notin S, Has(q, S) PROVE Has(r, S)
  <2>1. PICK i \in 1..Len(q) : q[i] \in S
    BY <1>4, Zenon DEF Has
  <2>2. i - 1 \in 1..Len(r) /\ q[i] = r[i - 1]
    BY <1>2, <1>4, <2>1, Zenon
  <2> QED
    BY <2>1, <2>2, Zenon DEF Has
<1>5. 1 \in 1..Len(q)
  BY <1>2
<1>6. q[1] \in S => Has(q, S)
  BY <1>5, Zenon DEF Has
<1>7. ASSUME Once(q, S) PROVE Once(r, S)
  <2> SUFFICES ASSUME NEW i \in 1..Len(r), NEW j \in 1..Len(r), r[i] \in S, r[j] \in S
               PROVE  i = j
    BY Zenon DEF Once
  <2>1. i + 1 \in 1..Len(q) /\ j + 1 \in 1..Len(q) /\ q[i + 1] \in S /\ q[j + 1] \in S
    BY <1>2, Zenon
  <2>2. i + 1 = j + 1
    BY <1>7, <2>1, Zenon DEF Once
  <2> QED
    BY <2>2
<1>8. ASSUME Once(q, S), q[1] \in S PROVE ~Has(r, S)
  <2> SUFFICES ASSUME NEW i \in 1..Len(r), r[i] \in S PROVE FALSE
    BY Zenon DEF Has
  <2>1. i + 1 \in 1..Len(q) /\ q[i + 1] \in S
    BY <1>2, Zenon
  <2>2. i + 1 = 1
    BY <1>5, <1>8, <2>1, Zenon DEF Once
  <2> QED
    BY <2>2
<1>9. ASSUME Before(q, S, U) PROVE Before(r, S, U)
  <2> SUFFICES ASSUME NEW i \in 1..Len(r), NEW j \in 1..Len(r), r[i] \in S, r[j] \in U
               PROVE  i < j
    BY Zenon DEF Before
  <2>1. i + 1 \in 1..Len(q) /\ j + 1 \in 1..Len(q) /\ q[i + 1] \in S /\ q[j + 1] \in U
    BY <1>2, Zenon
  <2>2. i + 1 < j + 1
    BY <1>9, <2>1, Zenon DEF Before
  <2> QED
    BY <2>2
<1>10. ASSUME Before(q, S, U), q[1] \in U PROVE ~Has(q, S)
  <2> SUFFICES ASSUME NEW i \in 1..Len(q), q[i] \in S PROVE FALSE
    BY Zenon DEF Has
  <2>1. i < 1
    BY <1>5, <1>10, Zenon DEF Before
  <2> QED
    BY <2>1
<1> QED
  BY <1>1, <1>2, <1>3, <1>4, <1>6, <1>7, <1>8, <1>9, <1>10, Zenon

\* An event is appended to a queue.
LEMMA QueueAppend ==
  ASSUME NEW T, NEW q \in Seq(T), NEW x \in T, NEW S, NEW U
  PROVE  /\ Append(q, x) \in Seq(T)
         /\ Has(Append(q, x), S) <=> Has(q, S) \/ x \in S
         /\ Once(q, S) /\ (x \notin S \/ ~Has(q, S)) => Once(Append(q, x), S)
         /\ Before(q, S, U) /\ (x \notin S \/ (~Has(q, U) /\ x \notin U))
              => Before(Append(q, x), S, U)
<1>1. PICK r : r = Append(q, x)
  BY Zenon
<1>2. PICK n \in Nat : n = Len(q)
  OBVIOUS
<1>3. /\ r \in Seq(T) /\ Len(r) = n + 1 /\ r[n + 1] = x /\ n + 1 \in 1..Len(r)
      /\ \A i \in 1..n : i \in 1..Len(r) /\ r[i] = q[i]
      /\ \A i \in 1..Len(r) : i # n + 1 => i \in 1..n
  BY <1>1, <1>2
<1>4. Has(r, S) <=> Has(q, S) \/ x \in S
  BY <1>2, <1>3, Zenon DEF Has
<1>5. ASSUME Once(q, S), x \notin S \/ ~Has(q, S) PROVE Once(r, S)
  BY <1>2, <1>3, <1>5, Zenon DEF Has, Once
<1>6. ASSUME Before(q, S, U), x \notin S \/ (~Has(q, U) /\ x \notin U)
      PROVE  Before(r, S, U)
  <2> SUFFICES ASSUME NEW i \in 1..Len(r), NEW j \in 1..Len(r), r[i] \in S, r[j] \in U
               PROVE  i < j
    BY Zenon DEF Before
  <2>1. CASE i \in 1..n /\ j \in 1..n
    BY <1>2, <1>3, <1>6, <2>1, Zenon DEF Before
  <2>2. CASE i \in 1..n /\ j = n + 1
    BY <2>2
  <2>3. CASE i = n + 1
    BY <1>2, <1>3, <1>6, <2>3, Zenon DEF Has
  <2> QED
    BY <1>3, <2>1, <2>2, <2>3, Zenon
<1> QED
  BY <1>1, <1>3, <1>4, <1>5, <1>6, Zenon

-----------------------------------------------------------------------------
(* The invariant *)

NetEvent ==
  {Ev(type, p) : type \in {"AsycConnect", "CancelConnect", "Delete"}, p \in Proxies}
    \cup {Ev("Disconnect", t) : t \in Transports}
    \cup {Ev("StartListen", 0), Ev("StopListen", 0)}

UserEvent ==
  {Ev(type, p) : type \in {"Connected", "Failed"}, p \in Proxies}
    \cup {Ev(type, t) : type \in {"Accepted", "OnDisconnect"}, t \in Transports}

Asyc(p) == {Ev("AsycConnect", p)}
Cancel(p) == {Ev("CancelConnect", p)}
Delete(p) == {Ev("Delete", p)}
Indication(p) == {Ev("Connected", p), Ev("Failed", p)}
Start == {Ev("StartListen", 0)}
Stop == {Ev("StopListen", 0)}

Proxy == [life : {"new", "alive", "dead"}, stopped : BOOLEAN, refs : Nat,
          actual : {"none", "busy", "idle"}]

ProxyType ==
  /\ prox \in [Proxies -> Proxy]
  /\ stream \in [con : Proxies \cup {0}, trp : Proxies \cup {0}]
  /\ nq \in Seq(NetEvent) /\ uq \in Seq(UserEvent)

Flag == BOOLEAN
One(b) == IF b THEN 1 ELSE 0

\* Who refers to a proxy x: the stream (s) and the events AsycConnect (a),
\* CancelConnect (c) and the indication (i); d is its delete event.
Held(x, s, a, c, i, d) ==
  /\ x.refs = One(s) + One(a) + One(c) + One(i)
  /\ d => x.refs = 0
  /\ x.life = "alive" /\ x.refs = 0 => d
  /\ x.life # "alive" => x.refs = 0 /\ ~d /\ x.actual = "none" /\ x.stopped
  /\ ~x.stopped => s
  /\ c => x.stopped
  /\ a => x.actual = "none" /\ ~i /\ (c \/ ~x.stopped)
  /\ x.actual = "busy" => ~i /\ (c \/ ~x.stopped)
  /\ (c \/ ~x.stopped) /\ ~a => x.actual # "none"

HeldInv ==
  \A p \in Proxies :
    Held(prox[p], stream.con = p, Has(nq, Asyc(p)), Has(nq, Cancel(p)),
         Has(uq, Indication(p)), Has(nq, Delete(p)))

\* Each of these events is queued once, and cancelled after it was asked for.
ConnectOrder(q) ==
  \A p \in Proxies :
    /\ Once(q, Asyc(p)) /\ Once(q, Cancel(p)) /\ Once(q, Delete(p))
    /\ Before(q, Asyc(p), Cancel(p))

ListenOrder(q) == Once(q, Start) /\ Once(q, Stop) /\ Before(q, Stop, Start)

QueueInv ==
  /\ ConnectOrder(nq) /\ ListenOrder(nq)
  /\ \A p \in Proxies : Once(uq, Indication(p))

\* The stream waits for a connector it has not stopped and for no other.
StreamInv == \A p \in Proxies : ~prox[p].stopped => stream.trp = 0

\* The listening acceptor of the network thread, as the user thread knows it.
ListenInv ==
  /\ acc \in [stopped : BOOLEAN, sink : BOOLEAN, actual : BOOLEAN]
  /\ waiting \in {"no", "yes", "ok", "failed"}
  /\ acc.actual <=> Has(nq, Stop) \/ ~acc.stopped \/ waiting = "ok"
  /\ ~acc.stopped \/ waiting # "no" => acc.sink
  /\ waiting # "no" => acc.stopped
  /\ waiting = "yes" <=> Has(nq, Start)
  /\ Has(nq, Stop) => acc.stopped /\ waiting \notin {"ok", "failed"}

NoFault == faults = {}

PInv == ProxyType /\ HeldInv /\ QueueInv /\ StreamInv /\ ListenInv /\ NoFault

-----------------------------------------------------------------------------
(* The references of one proxy *)

\* CancelConnect posts its event; the stream still refers to the proxy.
LEMMA StopHeld ==
  ASSUME NEW x \in Proxy, NEW y,
         NEW a \in Flag, NEW i \in Flag, NEW d \in Flag,
         Held(x, TRUE, a, FALSE, i, d), ~x.stopped,
         y = [x EXCEPT !.stopped = TRUE, !.refs = @ + 1]
  PROVE  y \in Proxy /\ Held(y, TRUE, a, TRUE, i, d)
<1>1. x.refs \in Nat /\ x.refs + 1 \in Nat
  BY DEF Proxy
<1>2. /\ y \in Proxy
      /\ y.stopped = TRUE /\ y.life = x.life /\ y.refs = x.refs + 1 /\ y.actual = x.actual
  BY <1>1, Zenon DEF Proxy
<1>3. ~d /\ x.life = "alive"
  BY <1>1 DEF Held, One, Flag
<1> QED
  BY <1>1, <1>2, <1>3 DEF Held, One, Flag

\* Nobody refers to a proxy that does not exist yet.
LEMMA FreshHeld ==
  ASSUME NEW x \in Proxy, NEW s \in Flag, NEW a \in Flag, NEW c \in Flag, NEW i \in Flag,
         NEW d \in Flag, Held(x, s, a, c, i, d), x.life = "new"
  PROVE  ~s /\ ~a /\ ~c /\ ~i /\ ~d
BY DEF Held, One, Flag

\* The indication is fired.
LEMMA IndicationHeld ==
  ASSUME NEW x \in Proxy, NEW y,
         NEW s \in Flag, NEW a \in Flag, NEW c \in Flag, NEW d \in Flag,
         Held(x, s, a, c, TRUE, d),
         y = [x EXCEPT !.stopped = TRUE, !.refs = @ - 1]
  PROVE  /\ y \in Proxy /\ ~d /\ (~x.stopped => s)
         /\ Held(y, s, a, c, FALSE, x.refs = 1)
<1>1. x.refs \in Nat /\ x.refs # 0 /\ x.refs - 1 \in Nat
  BY DEF Held, One, Proxy, Flag
<1>2. /\ y \in Proxy
      /\ y.stopped = TRUE /\ y.life = x.life /\ y.refs = x.refs - 1 /\ y.actual = x.actual
  BY <1>1, Zenon DEF Proxy
<1>3. x.life = "alive" /\ ~d /\ ~a
  BY <1>1, Zenon DEF Held, Flag
<1>4. x.actual \in {"none", "busy", "idle"}
  BY Zenon DEF Proxy
<1> QED
  BY <1>1, <1>2, <1>3, <1>4 DEF Held, One, Flag

\* CFSEventAsycConnect is fired; it never holds the last reference.
LEMMA AsycHeld ==
  ASSUME NEW x \in Proxy, NEW y,
         NEW s \in Flag, NEW c \in Flag, NEW i \in Flag, NEW d \in Flag,
         Held(x, s, TRUE, c, i, d),
         y = [x EXCEPT !.actual = "busy", !.refs = @ - 1]
  PROVE  x.refs # 1 /\ y \in Proxy /\ Held(y, s, FALSE, c, i, d)
<1>1. x.refs \in Nat /\ x.refs # 0 /\ x.refs - 1 \in Nat
  BY DEF Held, One, Proxy, Flag
<1>2. /\ y \in Proxy
      /\ y.stopped = x.stopped /\ y.life = x.life /\ y.refs = x.refs - 1 /\ y.actual = "busy"
  BY <1>1, Zenon DEF Proxy
<1>3. x.refs # 1
  BY DEF Held, One, Flag
<1> QED
  BY <1>1, <1>2, <1>3 DEF Held, One, Flag

\* CFSEventCancelConnect is fired and finds a connector.
LEMMA CancelHeld ==
  ASSUME NEW x \in Proxy, NEW y,
         NEW s \in Flag, NEW i \in Flag, NEW d \in Flag,
         Held(x, s, FALSE, TRUE, i, d),
         y = [life |-> IF x.refs = 1 THEN "dead" ELSE x.life, stopped |-> x.stopped,
              refs |-> x.refs - 1, actual |-> "none"]
  PROVE  x.actual # "none" /\ x.stopped /\ y \in Proxy /\ Held(y, s, FALSE, FALSE, i, d)
<1>1. x.refs \in Nat /\ x.refs # 0 /\ x.refs - 1 \in Nat
  BY DEF Held, One, Proxy, Flag
<1>2. y \in Proxy
  BY <1>1, Zenon DEF Proxy
<1>3. x.stopped /\ x.actual # "none" /\ ~d /\ x.life = "alive"
  BY <1>1, Zenon DEF Held, Flag
<1> QED
  BY <1>1, <1>2, <1>3 DEF Held, One, Flag

\* The delete event is fired.
LEMMA DeleteHeld ==
  ASSUME NEW x \in Proxy, NEW y,
         NEW s \in Flag, NEW a \in Flag, NEW c \in Flag, NEW i \in Flag,
         Held(x, s, a, c, i, TRUE),
         y = [x EXCEPT !.life = "dead", !.actual = "none"]
  PROVE  y \in Proxy /\ Held(y, s, a, c, i, FALSE)
<1>1. /\ y \in Proxy /\ x.refs \in Nat
      /\ y.stopped = x.stopped /\ y.life = "dead" /\ y.refs = x.refs /\ y.actual = "none"
  BY Zenon DEF Proxy
<1>2. ~s /\ ~a /\ ~c /\ ~i /\ x.stopped
  BY <1>1 DEF Held, One, Flag
<1> QED
  BY <1>1, <1>2, Zenon DEF Held, One, Flag

\* The connector answers.
LEMMA AnswerHeld ==
  ASSUME NEW x \in Proxy, NEW y,
         NEW s \in Flag, NEW a \in Flag, NEW c \in Flag, NEW i \in Flag,
         NEW d \in Flag,
         Held(x, s, a, c, i, d), x.actual = "busy",
         y = [x EXCEPT !.actual = "idle", !.refs = @ + 1]
  PROVE  ~i /\ y \in Proxy /\ Held(y, s, a, c, TRUE, d)
<1>1. x.refs \in Nat /\ x.refs + 1 \in Nat
  BY DEF Proxy
<1>2. /\ y \in Proxy
      /\ y.stopped = x.stopped /\ y.life = x.life /\ y.refs = x.refs + 1 /\ y.actual = "idle"
  BY <1>1, Zenon DEF Proxy
<1>3. ~i /\ ~d /\ x.life = "alive" /\ ~a /\ (s \/ c)
  BY <1>1 DEF Held, One, Flag
<1> QED
  BY <1>1, <1>2, <1>3 DEF Held, One, Flag

-----------------------------------------------------------------------------
(* Events of the network queue *)

\* Events of a different kind, or of different proxies, are different.
LEMMA EventKinds ==
  ASSUME NEW type, NEW id, NEW p
  PROVE  /\ Ev(type, id) \in Asyc(p) <=> type = "AsycConnect" /\ id = p
         /\ Ev(type, id) \in Cancel(p) <=> type = "CancelConnect" /\ id = p
         /\ Ev(type, id) \in Delete(p) <=> type = "Delete" /\ id = p
         /\ Ev(type, id) \in Indication(p) <=> type \in {"Connected", "Failed"} /\ id = p
         /\ Ev(type, id) \in Start <=> type = "StartListen" /\ id = 0
         /\ Ev(type, id) \in Stop <=> type = "StopListen" /\ id = 0
         /\ Ev(type, id).type = type /\ Ev(type, id).id = id
BY Zenon DEF Asyc, Cancel, Delete, Indication, Start, Stop, Ev

\* An event is posted to the network thread.
LEMMA Push ==
  ASSUME NEW q \in Seq(NetEvent), NEW type, NEW id, Ev(type, id) \in NetEvent,
         NEW r, r = Append(q, Ev(type, id))
  PROVE  /\ r \in Seq(NetEvent)
         /\ \A p : /\ Has(r, Asyc(p)) <=> Has(q, Asyc(p)) \/ (type = "AsycConnect" /\ id = p)
                   /\ Has(r, Cancel(p)) <=> Has(q, Cancel(p)) \/ (type = "CancelConnect" /\ id = p)
                   /\ Has(r, Delete(p)) <=> Has(q, Delete(p)) \/ (type = "Delete" /\ id = p)
         /\ Has(r, Start) <=> Has(q, Start) \/ (type = "StartListen" /\ id = 0)
         /\ Has(r, Stop) <=> Has(q, Stop) \/ (type = "StopListen" /\ id = 0)
<1>1. \A S : Has(r, S) <=> Has(q, S) \/ Ev(type, id) \in S
  BY QueueAppend, Zenon
<1>2. r \in Seq(NetEvent)
  BY QueueAppend, Zenon
<1>3. \A p : /\ Ev(type, id) \in Asyc(p) <=> type = "AsycConnect" /\ id = p
             /\ Ev(type, id) \in Cancel(p) <=> type = "CancelConnect" /\ id = p
             /\ Ev(type, id) \in Delete(p) <=> type = "Delete" /\ id = p
  BY EventKinds, Zenon
<1>4. /\ Ev(type, id) \in Start <=> type = "StartListen" /\ id = 0
      /\ Ev(type, id) \in Stop <=> type = "StopListen" /\ id = 0
  BY EventKinds, Zenon
<1>5. ASSUME NEW p
      PROVE  /\ Has(r, Asyc(p)) <=> Has(q, Asyc(p)) \/ (type = "AsycConnect" /\ id = p)
             /\ Has(r, Cancel(p)) <=> Has(q, Cancel(p)) \/ (type = "CancelConnect" /\ id = p)
             /\ Has(r, Delete(p)) <=> Has(q, Delete(p)) \/ (type = "Delete" /\ id = p)
  <2>1. /\ Has(r, Asyc(p)) <=> Has(q, Asyc(p)) \/ Ev(type, id) \in Asyc(p)
        /\ Has(r, Cancel(p)) <=> Has(q, Cancel(p)) \/ Ev(type, id) \in Cancel(p)
        /\ Has(r, Delete(p)) <=> Has(q, Delete(p)) \/ Ev(type, id) \in Delete(p)
    BY <1>1, Zenon
  <2> QED
    BY <1>3, <2>1, Zenon
<1>6. /\ Has(r, Start) <=> Has(q, Start) \/ Ev(type, id) \in Start
      /\ Has(r, Stop) <=> Has(q, Stop) \/ Ev(type, id) \in Stop
  BY <1>1, Zenon
<1> QED
  BY <1>2, <1>4, <1>5, <1>6, Zenon

\* It keeps the order of the connects if it is not queued twice.
LEMMA PushConnectOrder ==
  ASSUME NEW q \in Seq(NetEvent), NEW type, NEW id, Ev(type, id) \in NetEvent,
         NEW r, r = Append(q, Ev(type, id)), ConnectOrder(q),
         type = "AsycConnect" => ~Has(q, Asyc(id)) /\ ~Has(q, Cancel(id)),
         type = "CancelConnect" => ~Has(q, Cancel(id)),
         type = "Delete" => ~Has(q, Delete(id))
  PROVE  ConnectOrder(r)
<1> SUFFICES ASSUME NEW p \in Proxies
             PROVE  /\ Once(r, Asyc(p)) /\ Once(r, Cancel(p)) /\ Once(r, Delete(p))
                    /\ Before(r, Asyc(p), Cancel(p))
  BY Zenon DEF ConnectOrder
<1>1. /\ Once(q, Asyc(p)) /\ Once(q, Cancel(p)) /\ Once(q, Delete(p))
      /\ Before(q, Asyc(p), Cancel(p))
  BY Zenon DEF ConnectOrder
<1>2. \A S : Once(q, S) /\ (Ev(type, id) \notin S \/ ~Has(q, S)) => Once(r, S)
  BY QueueAppend, Zenon
<1>3. \A S, U : Before(q, S, U) /\ (Ev(type, id) \notin S \/ (~Has(q, U) /\ Ev(type, id) \notin U))
                  => Before(r, S, U)
  BY QueueAppend, ZenonT(30)
<1>4. /\ Ev(type, id) \in Asyc(p) <=> type = "AsycConnect" /\ id = p
      /\ Ev(type, id) \in Cancel(p) <=> type = "CancelConnect" /\ id = p
      /\ Ev(type, id) \in Delete(p) <=> type = "Delete" /\ id = p
  BY EventKinds, Zenon
<1>5. /\ Ev(type, id) \notin Asyc(p) \/ ~Has(q, Asyc(p))
      /\ Ev(type, id) \notin Cancel(p) \/ ~Has(q, Cancel(p))
      /\ Ev(type, id) \notin Delete(p) \/ ~Has(q, Delete(p))
  BY <1>4, Zenon
<1>6. Once(r, Asyc(p)) /\ Once(r, Cancel(p)) /\ Once(r, Delete(p))
  BY <1>1, <1>2, <1>5, Zenon
<1>7. Ev(type, id) \notin Asyc(p) \/ (~Has(q, Cancel(p)) /\ Ev(type, id) \notin Cancel(p))
  BY <1>4, Zenon
<1>8. Before(r, Asyc(p), Cancel(p))
  BY <1>1, <1>3, <1>7, Zenon
<1> QED
  BY <1>6, <1>8, Zenon

\* It keeps the order of the listens.
LEMMA PushListenOrder ==
  ASSUME NEW q \in Seq(NetEvent), NEW type, NEW id, Ev(type, id) \in NetEvent,
         NEW r, r = Append(q, Ev(type, id)), ListenOrder(q),
         type = "StartListen" => ~Has(q, Start),
         type = "StopListen" => ~Has(q, Start) /\ ~Has(q, Stop)
  PROVE  ListenOrder(r)
<1>1. \A S : Once(q, S) /\ (Ev(type, id) \notin S \/ ~Has(q, S)) => Once(r, S)
  BY QueueAppend, ZenonT(90)
<1>2. \A S, U : Before(q, S, U) /\ (Ev(type, id) \notin S \/ (~Has(q, U) /\ Ev(type, id) \notin U))
                  => Before(r, S, U)
  BY QueueAppend, Zenon
<1>3. Once(r, Start) /\ Once(r, Stop)
  BY <1>1, EventKinds, Zenon DEF ListenOrder
<1>4. Ev(type, id) \notin Stop \/ (~Has(q, Start) /\ Ev(type, id) \notin Start)
  <2>1. "StartListen" # "StopListen"
    BY Zenon
  <2> QED
    BY <2>1, EventKinds, Zenon
<1>5. Before(r, Stop, Start)
  BY <1>2, <1>4, Zenon DEF ListenOrder
<1> QED
  BY <1>3, <1>5, Zenon DEF ListenOrder

\* The network thread takes the first event.
LEMMA Pop ==
  ASSUME NEW q \in Seq(NetEvent), q # <<>>, NEW r, r = Tail(q)
  PROVE  /\ r \in Seq(NetEvent) /\ Head(q) \in NetEvent
         /\ ConnectOrder(q) => ConnectOrder(r)
         /\ ListenOrder(q) => ListenOrder(r)
         /\ \A S : Head(q) \notin S => (Has(r, S) <=> Has(q, S))
         /\ \A S : Head(q) \in S => Has(q, S) /\ (Once(q, S) => ~Has(r, S))
         /\ \A S, U : Before(q, S, U) /\ Head(q) \in U => ~Has(q, S)
<1>1. r \in Seq(NetEvent) /\ Head(q) \in NetEvent
  BY QueueTail, Zenon
<1>2. \A S : Head(q) \notin S => (Has(r, S) <=> Has(q, S))
  BY QueueTail, Zenon
<1>3. \A S : Head(q) \in S => Has(q, S) /\ (Once(q, S) => ~Has(r, S))
  BY QueueTail, Zenon
<1>4. \A S, U : Before(q, S, U) /\ Head(q) \in U => ~Has(q, S)
  BY QueueTail, Zenon
<1>5. \A S : Once(q, S) => Once(r, S)
  BY QueueTail, Zenon
<1>6. \A S, U : Before(q, S, U) => Before(r, S, U)
  BY QueueTail, Zenon
<1>7. ConnectOrder(q) => ConnectOrder(r)
  BY <1>5, <1>6, Zenon DEF ConnectOrder
<1>8. ListenOrder(q) => ListenOrder(r)
  BY <1>5, <1>6, Zenon DEF ListenOrder
<1> QED
  BY <1>1, <1>2, <1>3, <1>4, <1>7, <1>8, Zenon

-----------------------------------------------------------------------------
(* Steps *)

\* A proxy that a step does not concern.
LEMMA Frame ==
  ASSUME PInv, NEW p \in Proxies, prox'[p] = prox[p],
         stream'.con = p <=> stream.con = p,
         Has(nq', Asyc(p)) <=> Has(nq, Asyc(p)),
         Has(nq', Cancel(p)) <=> Has(nq, Cancel(p)),
         Has(uq', Indication(p)) <=> Has(uq, Indication(p)),
         Has(nq', Delete(p)) <=> Has(nq, Delete(p))
  PROVE  Held(prox'[p], stream'.con = p, Has(nq', Asyc(p)), Has(nq', Cancel(p)),
              Has(uq', Indication(p)), Has(nq', Delete(p)))
<1>1. Held(prox[p], stream.con = p, Has(nq, Asyc(p)), Has(nq, Cancel(p)),
           Has(uq, Indication(p)), Has(nq, Delete(p)))
  BY Zenon DEF PInv, HeldInv
<1>2. /\ (stream'.con = p) = (stream.con = p)
      /\ Has(nq', Asyc(p)) = Has(nq, Asyc(p))
      /\ Has(nq', Cancel(p)) = Has(nq, Cancel(p))
      /\ Has(uq', Indication(p)) = Has(uq, Indication(p))
      /\ Has(nq', Delete(p)) = Has(nq, Delete(p))
  BY Zenon DEF Has
<1> QED
  BY <1>1, <1>2, Zenon

\* A step that posts nothing about connects and leaves the proxies alone.
LEMMA KeepConnects ==
  ASSUME PInv, prox' = prox, stream'.con = stream.con,
         stream' \in [con : Proxies \cup {0}, trp : Proxies \cup {0}],
         stream'.trp = stream.trp \/ stream'.trp = 0,
         nq' \in Seq(NetEvent), uq' \in Seq(UserEvent),
         \A p \in Proxies : /\ Has(nq', Asyc(p)) <=> Has(nq, Asyc(p))
                            /\ Has(nq', Cancel(p)) <=> Has(nq, Cancel(p))
                            /\ Has(uq', Indication(p)) <=> Has(uq, Indication(p))
                            /\ Has(nq', Delete(p)) <=> Has(nq, Delete(p))
  PROVE  ProxyType' /\ HeldInv' /\ StreamInv'
<1>1. ProxyType'
  BY Zenon DEF PInv, ProxyType
<1>2. HeldInv'
  <2> SUFFICES ASSUME NEW p \in Proxies
               PROVE  Held(prox'[p], stream'.con = p, Has(nq', Asyc(p)), Has(nq', Cancel(p)),
                           Has(uq', Indication(p)), Has(nq', Delete(p)))
    BY Zenon DEF HeldInv
  <2> QED
    BY Frame, Zenon
<1>3. StreamInv'
  BY Zenon DEF PInv, StreamInv
<1> QED
  BY <1>1, <1>2, <1>3, Zenon

\* An event that is no answer of a connector is posted to the user thread.
LEMMA PostUser ==
  ASSUME PInv, NEW type \in {"Accepted", "OnDisconnect"}, NEW t \in Transports,
         uq' = Append(uq, Ev(type, t))
  PROVE  /\ uq' \in Seq(UserEvent)
         /\ \A p \in Proxies : /\ Has(uq', Indication(p)) <=> Has(uq, Indication(p))
                               /\ Once(uq', Indication(p))
<1>1. uq \in Seq(UserEvent) /\ \A p \in Proxies : Once(uq, Indication(p))
  BY Zenon DEF PInv, ProxyType, QueueInv
<1>2. Ev(type, t) \in UserEvent
  BY DEF UserEvent
<1>3. \A p : Ev(type, t) \notin Indication(p)
  BY Zenon DEF Ev, Indication
<1>4. uq' \in Seq(UserEvent)
  BY <1>1, <1>2, QueueAppend, Zenon
<1>5. ASSUME NEW p \in Proxies
      PROVE  (Has(uq', Indication(p)) <=> Has(uq, Indication(p))) /\ Once(uq', Indication(p))
  <2>1. Has(uq', Indication(p)) <=> Has(uq, Indication(p)) \/ Ev(type, t) \in Indication(p)
    BY <1>1, <1>2, QueueAppend, ZenonT(90)
  <2>2. Once(uq, Indication(p)) /\ (Ev(type, t) \notin Indication(p) \/ ~Has(uq, Indication(p)))
          => Once(uq', Indication(p))
    BY <1>1, <1>2, QueueAppend, ZenonT(30)
  <2> QED
    BY <1>1, <1>3, <2>1, <2>2, Zenon
<1> QED
  BY <1>4, <1>5, Zenon

\* Such an event is fired.
LEMMA TakeUser ==
  ASSUME PInv, uq # <<>>, uq' = Tail(uq), Head(uq).type \in {"Accepted", "OnDisconnect"}
  PROVE  /\ uq' \in Seq(UserEvent) /\ Head(uq).id \in Transports
         /\ \A p \in Proxies : /\ Has(uq', Indication(p)) <=> Has(uq, Indication(p))
                               /\ Once(uq', Indication(p))
<1>1. uq \in Seq(UserEvent) /\ \A p \in Proxies : Once(uq, Indication(p))
  BY Zenon DEF PInv, ProxyType, QueueInv
<1>2. uq' \in Seq(UserEvent) /\ Head(uq) \in UserEvent
  BY <1>1, QueueTail, Zenon
<1>3. Head(uq).id \in Transports
  BY <1>2 DEF UserEvent, Ev
<1>4. \A p : Head(uq) \notin Indication(p)
  BY DEF Indication, Ev
<1>5. ASSUME NEW p \in Proxies
      PROVE  (Has(uq', Indication(p)) <=> Has(uq, Indication(p))) /\ Once(uq', Indication(p))
  BY <1>1, <1>4, QueueTail, Zenon
<1> QED
  BY <1>2, <1>3, <1>5, Zenon

\* A connection accepted posts its event behind the events of the acceptor.
LEMMA OnAcceptIndicationInv ==
  ASSUME PInv, NEW t \in Accepted, OnAcceptIndication(t) PROVE PInv'
<1>1. /\ uq' = Append(uq, Ev("Accepted", t))
      /\ UNCHANGED <<prox, stream, acc, nq, waiting, faults>>
  BY Zenon DEF OnAcceptIndication
<1>2. t \in Transports
  BY Zenon DEF Transports
<1>3. /\ uq' \in Seq(UserEvent)
      /\ \A p \in Proxies : /\ Has(uq', Indication(p)) <=> Has(uq, Indication(p))
                            /\ Once(uq', Indication(p))
  BY <1>1, <1>2, PostUser, Zenon
<1>4. ProxyType' /\ HeldInv' /\ StreamInv'
  BY <1>1, <1>3, KeepConnects, Zenon DEF PInv, ProxyType
<1>5. QueueInv' /\ ListenInv' /\ NoFault'
  BY <1>1, <1>3, Zenon DEF PInv, QueueInv, ListenInv, NoFault
<1> QED
  BY <1>4, <1>5, Zenon DEF PInv

\* The network thread reports the end of a connection, once.
LEMMA OnDisconnectInv ==
  ASSUME PInv, NEW t \in Transports, OnDisconnect(t) PROVE PInv'
<1>1. /\ uq' = Append(uq, Ev("OnDisconnect", t))
      /\ UNCHANGED <<prox, stream, acc, nq, waiting, faults>>
  BY Zenon DEF OnDisconnect
<1>3. /\ uq' \in Seq(UserEvent)
      /\ \A p \in Proxies : /\ Has(uq', Indication(p)) <=> Has(uq, Indication(p))
                            /\ Once(uq', Indication(p))
  BY <1>1, PostUser, Zenon
<1>4. ProxyType' /\ HeldInv' /\ StreamInv'
  BY <1>1, <1>3, KeepConnects, Zenon DEF PInv, ProxyType
<1>5. QueueInv' /\ ListenInv' /\ NoFault'
  BY <1>1, <1>3, Zenon DEF PInv, QueueInv, ListenInv, NoFault
<1> QED
  BY <1>4, <1>5, Zenon DEF PInv

\* Disconnect of a transport is posted.
LEMMA PushDisconnect ==
  ASSUME NEW q \in Seq(NetEvent), NEW t \in Transports, NEW r, r = Append(q, Ev("Disconnect", t))
  PROVE  /\ r \in Seq(NetEvent)
         /\ ConnectOrder(q) => ConnectOrder(r)
         /\ ListenOrder(q) => ListenOrder(r)
         /\ \A p : /\ Has(r, Asyc(p)) <=> Has(q, Asyc(p))
                   /\ Has(r, Cancel(p)) <=> Has(q, Cancel(p))
                   /\ Has(r, Delete(p)) <=> Has(q, Delete(p))
         /\ Has(r, Start) <=> Has(q, Start)
         /\ Has(r, Stop) <=> Has(q, Stop)
<1>1. PICK type : type = "Disconnect"
  BY Zenon
<1>2. /\ type # "AsycConnect" /\ type # "CancelConnect" /\ type # "Delete"
      /\ type # "StartListen" /\ type # "StopListen"
      /\ Ev(type, t) \in NetEvent /\ r = Append(q, Ev(type, t))
  BY <1>1 DEF NetEvent
<1>3. ConnectOrder(q) => ConnectOrder(r)
  BY <1>2, PushConnectOrder, Zenon
<1>4. ListenOrder(q) => ListenOrder(r)
  BY <1>2, PushListenOrder, Zenon
<1>5. /\ r \in Seq(NetEvent)
      /\ \A p : /\ Has(r, Asyc(p)) <=> Has(q, Asyc(p)) \/ (type = "AsycConnect" /\ t = p)
                /\ Has(r, Cancel(p)) <=> Has(q, Cancel(p)) \/ (type = "CancelConnect" /\ t = p)
                /\ Has(r, Delete(p)) <=> Has(q, Delete(p)) \/ (type = "Delete" /\ t = p)
      /\ Has(r, Start) <=> Has(q, Start) \/ (type = "StartListen" /\ t = 0)
      /\ Has(r, Stop) <=> Has(q, Stop) \/ (type = "StopListen" /\ t = 0)
  BY <1>2, Push, Zenon
<1> QED
  BY <1>2, <1>3, <1>4, <1>5, Zenon

\* Nothing about listening changes.
LEMMA KeepListen ==
  ASSUME PInv, acc' = acc, waiting' = waiting,
         Has(nq', Start) <=> Has(nq, Start), Has(nq', Stop) <=> Has(nq, Stop)
  PROVE  ListenInv'
BY Zenon DEF PInv, ListenInv

\* The end of a connection reaches who holds it.
LEMMA FireOnDisconnectInv == ASSUME PInv, FireOnDisconnect PROVE PInv'
<1>1. /\ uq # <<>> /\ uq' = Tail(uq) /\ Head(uq).type = "OnDisconnect"
      /\ stream' = IF stream.trp = Head(uq).id THEN [stream EXCEPT !.trp = 0] ELSE stream
      /\ UNCHANGED <<prox, acc, nq, waiting, faults>>
  BY Zenon DEF FireOnDisconnect, Firing
<1>2. /\ uq' \in Seq(UserEvent)
      /\ \A p \in Proxies : /\ Has(uq', Indication(p)) <=> Has(uq, Indication(p))
                            /\ Once(uq', Indication(p))
  BY <1>1, TakeUser, Zenon
<1>3. /\ stream' \in [con : Proxies \cup {0}, trp : Proxies \cup {0}]
      /\ stream'.con = stream.con /\ (stream'.trp = stream.trp \/ stream'.trp = 0)
  BY <1>1, Zenon DEF PInv, ProxyType
<1>4. ProxyType' /\ HeldInv' /\ StreamInv'
  BY <1>1, <1>2, <1>3, KeepConnects, Zenon DEF PInv, ProxyType
<1>5. QueueInv' /\ ListenInv' /\ NoFault'
  BY <1>1, <1>2, Zenon DEF PInv, QueueInv, ListenInv, NoFault
<1> QED
  BY <1>4, <1>5, Zenon DEF PInv

\* An accepted connection is handed to the sink, or closed when the acceptor stopped.
LEMMA FireOnAcceptedInv == ASSUME PInv, FireOnAccepted PROVE PInv'
<1> DEFINE t == Head(uq).id
<1>1. /\ uq # <<>> /\ uq' = Tail(uq) /\ Head(uq).type = "Accepted"
      /\ UNCHANGED <<prox, stream, acc, waiting>>
  BY Zenon DEF FireOnAccepted, Firing
<1>2. /\ uq' \in Seq(UserEvent) /\ t \in Transports
      /\ \A p \in Proxies : /\ Has(uq', Indication(p)) <=> Has(uq, Indication(p))
                            /\ Once(uq', Indication(p))
  BY <1>1, TakeUser, Zenon
<1>3. (nq' = nq \/ nq' = Append(nq, Ev("Disconnect", t))) /\ faults' = faults
  BY Zenon DEF FireOnAccepted, PInv, ListenInv
<1> HIDE DEF t
<1>4. nq \in Seq(NetEvent) /\ ConnectOrder(nq) /\ ListenOrder(nq)
  BY Zenon DEF PInv, ProxyType, QueueInv
<1>5. /\ nq' \in Seq(NetEvent) /\ ConnectOrder(nq') /\ ListenOrder(nq')
      /\ \A p : /\ Has(nq', Asyc(p)) <=> Has(nq, Asyc(p))
                /\ Has(nq', Cancel(p)) <=> Has(nq, Cancel(p))
                /\ Has(nq', Delete(p)) <=> Has(nq, Delete(p))
      /\ Has(nq', Start) <=> Has(nq, Start)
      /\ Has(nq', Stop) <=> Has(nq, Stop)
  <2>1. CASE nq' = nq
    BY <1>4, <2>1, Zenon
  <2>2. CASE nq' = Append(nq, Ev("Disconnect", t))
    BY <1>2, <1>4, <2>2, PushDisconnect, Zenon
  <2> QED
    BY <1>3, <2>1, <2>2, Zenon
<1>6. ProxyType' /\ HeldInv' /\ StreamInv'
  BY <1>1, <1>2, <1>5, KeepConnects, Zenon DEF PInv, ProxyType
<1>7. ListenInv'
  BY <1>1, <1>5, KeepListen, Zenon
<1>8. QueueInv' /\ NoFault'
  BY <1>2, <1>3, <1>5, Zenon DEF PInv, QueueInv, NoFault
<1> QED
  BY <1>6, <1>7, <1>8, Zenon DEF PInv

\* The application disconnects a connection it accepted.
LEMMA DisconnectAcceptedInv ==
  ASSUME PInv, NEW t \in Accepted, DisconnectAccepted(t) PROVE PInv'
<1>1. /\ nq' = Append(nq, Ev("Disconnect", t))
      /\ UNCHANGED <<prox, stream, acc, uq, waiting, faults>>
  BY Zenon DEF DisconnectAccepted
<1>2. t \in Transports
  BY Zenon DEF Transports
<1>3. nq \in Seq(NetEvent) /\ ConnectOrder(nq) /\ ListenOrder(nq)
  BY Zenon DEF PInv, ProxyType, QueueInv
<1>4. /\ nq' \in Seq(NetEvent) /\ ConnectOrder(nq') /\ ListenOrder(nq')
      /\ \A p : /\ Has(nq', Asyc(p)) <=> Has(nq, Asyc(p))
                /\ Has(nq', Cancel(p)) <=> Has(nq, Cancel(p))
                /\ Has(nq', Delete(p)) <=> Has(nq, Delete(p))
      /\ Has(nq', Start) <=> Has(nq, Start)
      /\ Has(nq', Stop) <=> Has(nq, Stop)
  BY <1>1, <1>2, <1>3, PushDisconnect, Zenon
<1>5. ProxyType' /\ HeldInv' /\ StreamInv'
  BY <1>1, <1>4, KeepConnects, Zenon DEF PInv, ProxyType
<1>6. ListenInv'
  BY <1>1, <1>4, KeepListen, Zenon
<1>7. QueueInv' /\ NoFault'
  BY <1>1, <1>4, Zenon DEF PInv, QueueInv, NoFault
<1> QED
  BY <1>5, <1>6, <1>7, Zenon DEF PInv

\* An event about listening is posted.
LEMMA PushListen ==
  ASSUME NEW q \in Seq(NetEvent), NEW type \in {"StartListen", "StopListen"},
         NEW r, r = Append(q, Ev(type, 0))
  PROVE  /\ r \in Seq(NetEvent)
         /\ ConnectOrder(q) => ConnectOrder(r)
         /\ ListenOrder(q) /\ ~Has(q, Start) /\ (type = "StopListen" => ~Has(q, Stop))
              => ListenOrder(r)
         /\ \A p : /\ Has(r, Asyc(p)) <=> Has(q, Asyc(p))
                   /\ Has(r, Cancel(p)) <=> Has(q, Cancel(p))
                   /\ Has(r, Delete(p)) <=> Has(q, Delete(p))
         /\ Has(r, Start) <=> Has(q, Start) \/ type = "StartListen"
         /\ Has(r, Stop) <=> Has(q, Stop) \/ type = "StopListen"
<1>1. Ev(type, 0) \in NetEvent
  BY DEF NetEvent
<1>2. type # "AsycConnect" /\ type # "CancelConnect" /\ type # "Delete"
  BY Zenon
<1>3. ConnectOrder(q) => ConnectOrder(r)
  BY <1>1, <1>2, PushConnectOrder, Zenon
<1>4. ListenOrder(q) /\ ~Has(q, Start) /\ (type = "StopListen" => ~Has(q, Stop))
        => ListenOrder(r)
  BY <1>1, PushListenOrder, Zenon
<1>5. /\ r \in Seq(NetEvent)
      /\ \A p : /\ Has(r, Asyc(p)) <=> Has(q, Asyc(p)) \/ (type = "AsycConnect" /\ 0 = p)
                /\ Has(r, Cancel(p)) <=> Has(q, Cancel(p)) \/ (type = "CancelConnect" /\ 0 = p)
                /\ Has(r, Delete(p)) <=> Has(q, Delete(p)) \/ (type = "Delete" /\ 0 = p)
      /\ Has(r, Start) <=> Has(q, Start) \/ (type = "StartListen" /\ 0 = 0)
      /\ Has(r, Stop) <=> Has(q, Stop) \/ (type = "StopListen" /\ 0 = 0)
  BY <1>1, Push, Zenon
<1> QED
  BY <1>2, <1>3, <1>4, <1>5, Zenon

\* A step that only listens.
LEMMA OnlyListen ==
  ASSUME PInv, UNCHANGED <<prox, stream, uq, faults>>,
         nq' \in Seq(NetEvent), ConnectOrder(nq'), ListenOrder(nq'),
         \A p : /\ Has(nq', Asyc(p)) <=> Has(nq, Asyc(p))
                /\ Has(nq', Cancel(p)) <=> Has(nq, Cancel(p))
                /\ Has(nq', Delete(p)) <=> Has(nq, Delete(p)),
         ListenInv'
  PROVE  PInv'
<1>1. ProxyType' /\ HeldInv' /\ StreamInv'
  BY KeepConnects, Zenon DEF PInv, ProxyType
<1>2. QueueInv' /\ NoFault'
  BY Zenon DEF PInv, QueueInv, NoFault
<1> QED
  BY <1>1, <1>2, Zenon DEF PInv

\* StartListen posts the event the network thread opens the acceptor with.
LEMMA StartListenInv == ASSUME PInv, StartListen PROVE PInv'
<1>1. /\ waiting = "no" /\ acc.stopped /\ acc' = [acc EXCEPT !.sink = TRUE]
      /\ nq' = Append(nq, Ev("StartListen", 0)) /\ waiting' = "yes"
      /\ UNCHANGED <<prox, stream, uq, faults>>
  BY Zenon DEF StartListen, UserRuns
<1>2. nq \in Seq(NetEvent) /\ ConnectOrder(nq) /\ ListenOrder(nq) /\ ~Has(nq, Start)
  BY <1>1, Zenon DEF PInv, ProxyType, QueueInv, ListenInv
<1>3. /\ nq' \in Seq(NetEvent) /\ ConnectOrder(nq') /\ ListenOrder(nq')
      /\ \A p : /\ Has(nq', Asyc(p)) <=> Has(nq, Asyc(p))
                /\ Has(nq', Cancel(p)) <=> Has(nq, Cancel(p))
                /\ Has(nq', Delete(p)) <=> Has(nq, Delete(p))
      /\ Has(nq', Start) /\ (Has(nq', Stop) <=> Has(nq, Stop))
  BY <1>1, <1>2, PushListen, ZenonT(30)
<1>4. ListenInv'
  BY <1>1, <1>3, Zenon DEF PInv, ListenInv
<1> QED
  BY <1>1, <1>3, <1>4, OnlyListen, Zenon

\* StartListen returns with the answer of the network thread.
LEMMA StartListenReturnsInv == ASSUME PInv, StartListenReturns PROVE PInv'
<1>1. /\ waiting \in {"ok", "failed"} /\ waiting' = "no"
      /\ acc' = IF waiting = "ok" THEN [acc EXCEPT !.stopped = FALSE]
                                  ELSE [acc EXCEPT !.sink = FALSE]
      /\ UNCHANGED <<prox, stream, nq, uq, faults>>
  BY Zenon DEF StartListenReturns
<1>2. ListenInv'
  <2>1. CASE waiting = "ok"
    BY <1>1, <2>1, Zenon DEF PInv, ListenInv
  <2>2. CASE waiting = "failed"
    BY <1>1, <2>2, Zenon DEF PInv, ListenInv
  <2> QED
    BY <1>1, <2>1, <2>2, Zenon
<1>3. nq' \in Seq(NetEvent) /\ ConnectOrder(nq') /\ ListenOrder(nq')
  BY <1>1, Zenon DEF PInv, ProxyType, QueueInv
<1> QED
  BY <1>1, <1>2, <1>3, OnlyListen, Zenon

\* StopListen posts the event that drops the acceptor.
LEMMA StopListenInv == ASSUME PInv, StopListen PROVE PInv'
<1>1. /\ waiting = "no" /\ ~acc.stopped
      /\ acc' = [acc EXCEPT !.stopped = TRUE, !.sink = FALSE]
      /\ nq' = Append(nq, Ev("StopListen", 0))
      /\ UNCHANGED <<prox, stream, uq, waiting, faults>>
  BY Zenon DEF StopListen, UserRuns
<1>2. /\ nq \in Seq(NetEvent) /\ ConnectOrder(nq) /\ ListenOrder(nq)
      /\ ~Has(nq, Start) /\ ~Has(nq, Stop)
  BY <1>1, Zenon DEF PInv, ProxyType, QueueInv, ListenInv
<1>3. /\ nq' \in Seq(NetEvent) /\ ConnectOrder(nq') /\ ListenOrder(nq')
      /\ \A p : /\ Has(nq', Asyc(p)) <=> Has(nq, Asyc(p))
                /\ Has(nq', Cancel(p)) <=> Has(nq, Cancel(p))
                /\ Has(nq', Delete(p)) <=> Has(nq, Delete(p))
      /\ ~Has(nq', Start) /\ Has(nq', Stop)
  BY <1>1, <1>2, PushListen, ZenonT(30)
<1>4. ListenInv'
  BY <1>1, <1>3, Zenon DEF PInv, ListenInv
<1> QED
  BY <1>1, <1>3, <1>4, OnlyListen, Zenon

\* An event that is not about a connector proxy is taken.
LEMMA PopOther ==
  ASSUME PInv, nq # <<>>, nq' = Tail(nq),
         Head(nq).type \in {"Disconnect", "StartListen", "StopListen"}
  PROVE  /\ nq' \in Seq(NetEvent) /\ ConnectOrder(nq') /\ ListenOrder(nq')
         /\ \A p : /\ Has(nq', Asyc(p)) <=> Has(nq, Asyc(p))
                   /\ Has(nq', Cancel(p)) <=> Has(nq, Cancel(p))
                   /\ Has(nq', Delete(p)) <=> Has(nq, Delete(p))
         /\ Head(nq) \in NetEvent
<1>1. nq \in Seq(NetEvent) /\ ConnectOrder(nq) /\ ListenOrder(nq)
  BY Zenon DEF PInv, ProxyType, QueueInv
<1>2. nq' \in Seq(NetEvent) /\ ConnectOrder(nq') /\ ListenOrder(nq') /\ Head(nq) \in NetEvent
  BY <1>1, Pop, Zenon
<1>3. \A S : Head(nq) \notin S => (Has(nq', S) <=> Has(nq, S))
  BY <1>1, Pop, Zenon
<1>4. \A p : Head(nq) \notin Asyc(p) /\ Head(nq) \notin Cancel(p) /\ Head(nq) \notin Delete(p)
  BY DEF Asyc, Cancel, Delete, Ev
<1> QED
  BY <1>2, <1>3, <1>4, Zenon

\* The network thread disconnects a transport the user thread has let go.
LEMMA FireDisconnectInv == ASSUME PInv, FireDisconnect PROVE PInv'
<1>1. /\ nq # <<>> /\ Head(nq).type = "Disconnect" /\ nq' = Tail(nq)
      /\ UNCHANGED <<prox, stream, acc, uq, waiting, faults>>
  BY Zenon DEF FireDisconnect, NetFires
<1>2. /\ nq' \in Seq(NetEvent) /\ ConnectOrder(nq') /\ ListenOrder(nq')
      /\ \A p : /\ Has(nq', Asyc(p)) <=> Has(nq, Asyc(p))
                /\ Has(nq', Cancel(p)) <=> Has(nq, Cancel(p))
                /\ Has(nq', Delete(p)) <=> Has(nq, Delete(p))
  BY <1>1, PopOther, Zenon
<1>3. nq \in Seq(NetEvent)
  BY Zenon DEF PInv, ProxyType
<1>4. Head(nq) \notin Start /\ Head(nq) \notin Stop
  BY <1>1 DEF Start, Stop, Ev
<1>5. (Has(nq', Start) <=> Has(nq, Start)) /\ (Has(nq', Stop) <=> Has(nq, Stop))
  BY <1>1, <1>3, <1>4, Pop, Zenon
<1>6. ListenInv'
  BY <1>1, <1>5, KeepListen
<1> QED
  BY <1>1, <1>2, <1>6, OnlyListen, Zenon

\* StartListen finds no acceptor: the StopListen before it was fired.
LEMMA FireStartListenInv == ASSUME PInv, FireStartListen PROVE PInv'
<1>1. /\ nq # <<>> /\ Head(nq).type = "StartListen" /\ nq' = Tail(nq)
      /\ UNCHANGED <<prox, stream, uq>>
      /\ faults' = IF acc.actual THEN faults \cup {"TwoActual"} ELSE faults
  BY Zenon DEF FireStartListen, NetFires
<1>2. /\ nq' \in Seq(NetEvent) /\ ConnectOrder(nq') /\ ListenOrder(nq')
      /\ \A p : /\ Has(nq', Asyc(p)) <=> Has(nq, Asyc(p))
                /\ Has(nq', Cancel(p)) <=> Has(nq, Cancel(p))
                /\ Has(nq', Delete(p)) <=> Has(nq, Delete(p))
      /\ Head(nq) \in NetEvent
  BY <1>1, PopOther, Zenon
<1>3. Head(nq) \in Start /\ Head(nq) \notin Stop
  BY <1>1, <1>2 DEF NetEvent, Start, Stop, Ev
<1>4. nq \in Seq(NetEvent) /\ Once(nq, Start) /\ Before(nq, Stop, Start)
  BY Zenon DEF PInv, ProxyType, QueueInv, ListenOrder
<1>5. Has(nq, Start) /\ ~Has(nq', Start)
  BY <1>1, <1>3, <1>4, Pop, Zenon
<1>6. ~Has(nq, Stop)
  BY <1>1, <1>3, <1>4, Pop, Zenon
<1>7. ~Has(nq', Stop)
  BY <1>1, <1>3, <1>4, <1>6, Pop, Zenon
<1>8. waiting = "yes" /\ acc.stopped /\ ~acc.actual
  BY <1>5, <1>6, Zenon DEF PInv, ListenInv
<1>9. PICK result \in {"ok", "failed"} :
        waiting' = result /\ acc' = [acc EXCEPT !.actual = (result = "ok")]
  BY Zenon DEF FireStartListen
<1>10. ListenInv'
  <2>1. CASE result = "ok"
    BY <1>5, <1>7, <1>8, <1>9, <2>1, Zenon DEF PInv, ListenInv
  <2>2. CASE result = "failed"
    BY <1>5, <1>7, <1>8, <1>9, <2>2 DEF PInv, ListenInv
  <2> QED
    BY <1>9, <2>1, <2>2
<1> QED
  BY <1>1, <1>2, <1>8, <1>10, OnlyListen, Zenon

\* StopListen finds the acceptor it is to stop.
LEMMA FireStopListenInv == ASSUME PInv, FireStopListen PROVE PInv'
<1>1. /\ nq # <<>> /\ Head(nq).type = "StopListen" /\ nq' = Tail(nq)
      /\ acc' = [acc EXCEPT !.actual = FALSE]
      /\ UNCHANGED <<prox, stream, uq, waiting>>
      /\ faults' = IF acc.actual THEN faults ELSE faults \cup {"NoActual"}
  BY Zenon DEF FireStopListen, NetFires
<1>2. /\ nq' \in Seq(NetEvent) /\ ConnectOrder(nq') /\ ListenOrder(nq')
      /\ \A p : /\ Has(nq', Asyc(p)) <=> Has(nq, Asyc(p))
                /\ Has(nq', Cancel(p)) <=> Has(nq, Cancel(p))
                /\ Has(nq', Delete(p)) <=> Has(nq, Delete(p))
      /\ Head(nq) \in NetEvent
  BY <1>1, PopOther, Zenon
<1>3. Head(nq) \in Stop /\ Head(nq) \notin Start
  BY <1>1, <1>2 DEF NetEvent, Start, Stop, Ev
<1>4. nq \in Seq(NetEvent) /\ Once(nq, Stop)
  BY Zenon DEF PInv, ProxyType, QueueInv, ListenOrder
<1>5. Has(nq, Stop) /\ ~Has(nq', Stop)
  BY <1>1, <1>3, <1>4, Pop, Zenon
<1>6. Has(nq', Start) <=> Has(nq, Start)
  BY <1>1, <1>3, <1>4, Pop, Zenon
<1>7. acc.actual /\ acc.stopped /\ waiting \notin {"ok", "failed"}
  BY <1>5, Zenon DEF PInv, ListenInv
<1>8. ListenInv'
  BY <1>1, <1>5, <1>6, <1>7, ZenonT(30) DEF PInv, ListenInv
<1> QED
  BY <1>1, <1>2, <1>7, <1>8, OnlyListen, Zenon

-----------------------------------------------------------------------------
(* Steps of one proxy *)

\* The references of a proxy, as Boolean values.
Refer(p, s, a, c, i, d) ==
  /\ s <=> stream.con = p
  /\ a <=> Has(nq, Asyc(p))
  /\ c <=> Has(nq, Cancel(p))
  /\ i <=> Has(uq, Indication(p))
  /\ d <=> Has(nq, Delete(p))

\* They are those of the invariant.
LEMMA HeldAt ==
  ASSUME PInv, NEW p \in Proxies
  PROVE  /\ prox[p] \in Proxy
         /\ \E s, a, c, i, d \in Flag : Refer(p, s, a, c, i, d) /\ Held(prox[p], s, a, c, i, d)
<1>1. prox[p] \in Proxy
  BY Zenon DEF PInv, ProxyType
<1>2. Held(prox[p], stream.con = p, Has(nq, Asyc(p)), Has(nq, Cancel(p)),
           Has(uq, Indication(p)), Has(nq, Delete(p)))
  BY Zenon DEF PInv, HeldInv
<1>3. PICK s, a, c, i, d :
        /\ s = (stream.con = p) /\ a = Has(nq, Asyc(p)) /\ c = Has(nq, Cancel(p))
        /\ i = Has(uq, Indication(p)) /\ d = Has(nq, Delete(p))
  BY Zenon
<1>4. s \in Flag /\ a \in Flag /\ c \in Flag /\ i \in Flag /\ d \in Flag
  BY <1>3, Zenon DEF Has, Flag
<1>5. Held(prox[p], s, a, c, i, d)
  BY <1>2, <1>3, Zenon
<1>6. Refer(p, s, a, c, i, d)
  BY <1>3, Zenon DEF Refer
<1> QED
  BY <1>1, <1>4, <1>5, <1>6, Zenon

\* The other way round, after a step.
LEMMA HeldMade ==
  ASSUME NEW p, NEW s \in Flag, NEW a \in Flag, NEW c \in Flag, NEW i \in Flag,
         NEW d \in Flag, NEW x,
         Held(x, s, a, c, i, d), Refer(p, s, a, c, i, d)'
  PROVE  Held(x, stream'.con = p, Has(nq', Asyc(p)), Has(nq', Cancel(p)),
              Has(uq', Indication(p)), Has(nq', Delete(p)))
<1>1. /\ s = (stream'.con = p) /\ a = Has(nq', Asyc(p)) /\ c = Has(nq', Cancel(p))
      /\ i = Has(uq', Indication(p)) /\ d = Has(nq', Delete(p))
  BY Zenon DEF Has, Flag, Refer
<1> QED
  BY <1>1, Zenon

\* A step of one proxy.
LEMMA OneProxy ==
  ASSUME PInv, NEW p \in Proxies, prox' \in [Proxies -> Proxy],
         stream' \in [con : Proxies \cup {0}, trp : Proxies \cup {0}],
         nq' \in Seq(NetEvent), ConnectOrder(nq'), ListenOrder(nq'),
         uq' \in Seq(UserEvent), \A o \in Proxies : Once(uq', Indication(o)),
         Has(nq', Start) <=> Has(nq, Start), Has(nq', Stop) <=> Has(nq, Stop),
         UNCHANGED <<acc, waiting, faults>>, stream'.con = stream.con,
         \A o \in Proxies \ {p} : /\ prox'[o] = prox[o]
                                  /\ Has(nq', Asyc(o)) <=> Has(nq, Asyc(o))
                                  /\ Has(nq', Cancel(o)) <=> Has(nq, Cancel(o))
                                  /\ Has(uq', Indication(o)) <=> Has(uq, Indication(o))
                                  /\ Has(nq', Delete(o)) <=> Has(nq, Delete(o)),
         Held(prox'[p], stream'.con = p, Has(nq', Asyc(p)), Has(nq', Cancel(p)),
              Has(uq', Indication(p)), Has(nq', Delete(p))),
         StreamInv'
  PROVE  PInv'
<1>1. ProxyType'
  BY Zenon DEF ProxyType
<1>2. HeldInv'
  <2> SUFFICES ASSUME NEW o \in Proxies
               PROVE  Held(prox'[o], stream'.con = o, Has(nq', Asyc(o)), Has(nq', Cancel(o)),
                           Has(uq', Indication(o)), Has(nq', Delete(o)))
    BY Zenon DEF HeldInv
  <2>1. CASE o = p
    BY <2>1, Zenon
  <2>2. CASE o # p
    <3>1. /\ prox'[o] = prox[o]
          /\ stream'.con = o <=> stream.con = o
          /\ Has(nq', Asyc(o)) <=> Has(nq, Asyc(o))
          /\ Has(nq', Cancel(o)) <=> Has(nq, Cancel(o))
          /\ Has(uq', Indication(o)) <=> Has(uq, Indication(o))
          /\ Has(nq', Delete(o)) <=> Has(nq, Delete(o))
      BY <2>2, Zenon
    <3> QED
      BY <3>1, Frame, Zenon
  <2> QED
    BY <2>1, <2>2, Zenon
<1>3. ListenInv'
  BY KeepListen, Zenon
<1>4. QueueInv' /\ NoFault'
  BY DEF PInv, QueueInv, NoFault
<1> QED
  BY <1>1, <1>2, <1>3, <1>4, Zenon DEF PInv

\* The events about a connector proxy.
ProxyEvents == {"AsycConnect", "CancelConnect", "Delete"}

\* An event about a connector proxy is taken.
LEMMA PopProxy ==
  ASSUME PInv, nq # <<>>, nq' = Tail(nq),
         NEW type \in ProxyEvents, Head(nq).type = type
  PROVE  /\ nq' \in Seq(NetEvent) /\ ConnectOrder(nq') /\ ListenOrder(nq')
         /\ Has(nq', Start) <=> Has(nq, Start)
         /\ Has(nq', Stop) <=> Has(nq, Stop)
         /\ Head(nq).id \in Proxies /\ Head(nq) = Ev(type, Head(nq).id)
         /\ \A o : /\ Has(nq', Asyc(o)) <=>
                        Has(nq, Asyc(o)) /\ ~(type = "AsycConnect" /\ Head(nq).id = o)
                   /\ Has(nq', Cancel(o)) <=>
                        Has(nq, Cancel(o)) /\ ~(type = "CancelConnect" /\ Head(nq).id = o)
                   /\ Has(nq', Delete(o)) <=>
                        Has(nq, Delete(o)) /\ ~(type = "Delete" /\ Head(nq).id = o)
<1>1. nq \in Seq(NetEvent) /\ ConnectOrder(nq) /\ ListenOrder(nq)
  BY Zenon DEF PInv, ProxyType, QueueInv
<1>2. nq' \in Seq(NetEvent) /\ ConnectOrder(nq') /\ ListenOrder(nq') /\ Head(nq) \in NetEvent
  BY <1>1, Pop, Zenon
<1>3. PICK p \in Proxies : Head(nq) = Ev(type, p)
  BY <1>2 DEF NetEvent, Ev, ProxyEvents
<1>4. Head(nq).id = p
  BY <1>3 DEF Ev
<1>5. \A S : Head(nq) \notin S => (Has(nq', S) <=> Has(nq, S))
  BY <1>1, Pop, Zenon
<1>6. \A S : Head(nq) \in S => Has(nq, S) /\ (Once(nq, S) => ~Has(nq', S))
  BY <1>1, Pop, Zenon
<1>7. Head(nq) \notin Start /\ Head(nq) \notin Stop
  BY DEF Start, Stop, Ev, ProxyEvents
<1>8. (Has(nq', Start) <=> Has(nq, Start)) /\ (Has(nq', Stop) <=> Has(nq, Stop))
  BY <1>5, <1>7, Zenon
<1>9. Once(nq, Asyc(p)) /\ Once(nq, Cancel(p)) /\ Once(nq, Delete(p))
  BY <1>1, Zenon DEF ConnectOrder
<1>10. ASSUME NEW o
       PROVE  /\ Has(nq', Asyc(o)) <=> Has(nq, Asyc(o)) /\ ~(type = "AsycConnect" /\ p = o)
              /\ Has(nq', Cancel(o)) <=> Has(nq, Cancel(o)) /\ ~(type = "CancelConnect" /\ p = o)
              /\ Has(nq', Delete(o)) <=> Has(nq, Delete(o)) /\ ~(type = "Delete" /\ p = o)
  <2>1. /\ Head(nq) \in Asyc(o) <=> type = "AsycConnect" /\ p = o
        /\ Head(nq) \in Cancel(o) <=> type = "CancelConnect" /\ p = o
        /\ Head(nq) \in Delete(o) <=> type = "Delete" /\ p = o
    BY <1>3 DEF Asyc, Cancel, Delete, Ev, ProxyEvents
  <2>2. Has(nq', Asyc(o)) <=> Has(nq, Asyc(o)) /\ ~(type = "AsycConnect" /\ p = o)
    BY <1>5, <1>6, <1>9, <2>1, Zenon
  <2>3. Has(nq', Cancel(o)) <=> Has(nq, Cancel(o)) /\ ~(type = "CancelConnect" /\ p = o)
    BY <1>5, <1>6, <1>9, <2>1, Zenon
  <2>4. Has(nq', Delete(o)) <=> Has(nq, Delete(o)) /\ ~(type = "Delete" /\ p = o)
    BY <1>5, <1>6, <1>9, <2>1, Zenon
  <2> QED
    BY <2>2, <2>3, <2>4, Zenon
<1> QED
  BY <1>2, <1>3, <1>4, <1>8, <1>10, Zenon

\* The user thread's queue is left alone.
LEMMA KeepUser ==
  ASSUME PInv, uq' = uq
  PROVE  uq' \in Seq(UserEvent) /\ \A o \in Proxies : Once(uq', Indication(o))
BY DEF PInv, ProxyType, QueueInv

\* An event about the proxy p is fired and leaves y of it.
LEMMA FireProxy ==
  ASSUME PInv, nq # <<>>, nq' = Tail(nq),
         NEW type \in ProxyEvents, Head(nq).type = type,
         NEW p, p = Head(nq).id, NEW y \in Proxy, prox' = [prox EXCEPT ![p] = y],
         y.stopped = prox[p].stopped,
         UNCHANGED <<stream, acc, uq, waiting, faults>>,
         NEW s \in Flag, NEW a \in Flag, NEW c \in Flag, NEW i \in Flag, NEW d \in Flag,
         Refer(p, s, a, c, i, d)', Held(y, s, a, c, i, d)
  PROVE  PInv'
<1>1. /\ nq' \in Seq(NetEvent) /\ ConnectOrder(nq') /\ ListenOrder(nq')
      /\ Has(nq', Start) <=> Has(nq, Start)
      /\ Has(nq', Stop) <=> Has(nq, Stop)
      /\ p \in Proxies
      /\ \A o : /\ Has(nq', Asyc(o)) <=> Has(nq, Asyc(o)) /\ ~(type = "AsycConnect" /\ p = o)
                /\ Has(nq', Cancel(o)) <=> Has(nq, Cancel(o)) /\ ~(type = "CancelConnect" /\ p = o)
                /\ Has(nq', Delete(o)) <=> Has(nq, Delete(o)) /\ ~(type = "Delete" /\ p = o)
  BY PopProxy, Zenon
<1>2. prox \in [Proxies -> Proxy]
  BY Zenon DEF PInv, ProxyType
<1>3. prox' \in [Proxies -> Proxy] /\ prox'[p] = y /\ \A o \in Proxies \ {p} : prox'[o] = prox[o]
  BY <1>1, <1>2, Zenon
<1>4. Held(prox'[p], s, a, c, i, d)
  BY <1>3, Zenon
<1>5. Held(prox'[p], stream'.con = p, Has(nq', Asyc(p)), Has(nq', Cancel(p)),
           Has(uq', Indication(p)), Has(nq', Delete(p)))
  BY <1>4, HeldMade, Zenon
<1>6. StreamInv'
  BY <1>1, <1>3, Zenon DEF PInv, StreamInv
<1>7. \A o \in Proxies \ {p} : /\ Has(nq', Asyc(o)) <=> Has(nq, Asyc(o))
                               /\ Has(nq', Cancel(o)) <=> Has(nq, Cancel(o))
                               /\ Has(uq', Indication(o)) <=> Has(uq, Indication(o))
                               /\ Has(nq', Delete(o)) <=> Has(nq, Delete(o))
  BY <1>1, Zenon
<1>8. uq' \in Seq(UserEvent) /\ \A o \in Proxies : Once(uq', Indication(o))
  BY KeepUser, Zenon
<1>9. stream' \in [con : Proxies \cup {0}, trp : Proxies \cup {0}] /\ stream'.con = stream.con
  BY DEF PInv, ProxyType
<1> QED
  BY <1>1, <1>3, <1>5, <1>6, <1>7, <1>8, <1>9, OneProxy, Zenon

\* What an event of the proxy at the head of the queue shows of its references.
HeadRefer(type, p, s, a, c, i, d) ==
  /\ Refer(p, s, a, c, i, d) /\ Held(prox[p], s, a, c, i, d)
  /\ type = "AsycConnect" => a /\ Refer(p, s, FALSE, c, i, d)'
  /\ type = "CancelConnect" => c /\ ~a /\ Refer(p, s, a, FALSE, i, d)'
  /\ type = "Delete" => d /\ Refer(p, s, a, c, i, FALSE)'

\* It is fired.
LEMMA HeadRefers ==
  ASSUME PInv, nq # <<>>, nq' = Tail(nq), uq' = uq, stream' = stream,
         NEW type \in ProxyEvents, Head(nq).type = type,
         NEW p, p = Head(nq).id
  PROVE  /\ p \in Proxies /\ prox[p] \in Proxy /\ prox \in [Proxies -> Proxy]
         /\ \E s, a, c, i, d \in Flag : HeadRefer(type, p, s, a, c, i, d)
<1>1. /\ p \in Proxies /\ Head(nq) = Ev(type, p)
      /\ \A o : /\ Has(nq', Asyc(o)) <=> Has(nq, Asyc(o)) /\ ~(type = "AsycConnect" /\ p = o)
                /\ Has(nq', Cancel(o)) <=> Has(nq, Cancel(o)) /\ ~(type = "CancelConnect" /\ p = o)
                /\ Has(nq', Delete(o)) <=> Has(nq, Delete(o)) /\ ~(type = "Delete" /\ p = o)
  BY PopProxy, Zenon
<1>2. prox[p] \in Proxy /\ prox \in [Proxies -> Proxy] /\ nq \in Seq(NetEvent)
  BY <1>1, Zenon DEF PInv, ProxyType
<1>3. PICK s, a, c, i, d \in Flag : Refer(p, s, a, c, i, d) /\ Held(prox[p], s, a, c, i, d)
  BY <1>1, HeldAt, Zenon
<1>4. /\ type = "AsycConnect" => Head(nq) \in Asyc(p)
      /\ type = "CancelConnect" => Head(nq) \in Cancel(p)
      /\ type = "Delete" => Head(nq) \in Delete(p)
  BY <1>1, Zenon DEF Asyc, Cancel, Delete
<1>5. /\ \A S : Head(nq) \in S => Has(nq, S)
      /\ \A S, U : Before(nq, S, U) /\ Head(nq) \in U => ~Has(nq, S)
  BY <1>2, Pop, Zenon
<1>6. Before(nq, Asyc(p), Cancel(p))
  BY <1>1, Zenon DEF PInv, QueueInv, ConnectOrder
<1>7. /\ type = "AsycConnect" => Has(nq, Asyc(p))
      /\ type = "CancelConnect" => Has(nq, Cancel(p)) /\ ~Has(nq, Asyc(p))
      /\ type = "Delete" => Has(nq, Delete(p))
  BY <1>4, <1>5, <1>6, Zenon
<1>8. type = "AsycConnect" => a /\ Refer(p, s, FALSE, c, i, d)'
  BY <1>1, <1>3, <1>7, Zenon DEF Refer
<1>9. type = "CancelConnect" => c /\ ~a /\ Refer(p, s, a, FALSE, i, d)'
  BY <1>1, <1>3, <1>7 DEF Refer
<1>10. type = "Delete" => d /\ Refer(p, s, a, c, i, FALSE)'
  BY <1>1, <1>3, <1>7, Zenon DEF Refer
<1> QED
  BY <1>1, <1>2, <1>3, <1>8, <1>9, <1>10, Zenon DEF HeadRefer

\* CFSEventAsycConnect leaves the proxy alive.
LEMMA FireAsycConnectInv == ASSUME PInv, FireAsycConnect PROVE PInv'
<1>1. PICK type \in ProxyEvents : type = "AsycConnect"
  BY Zenon DEF ProxyEvents
<1>2. PICK p : p = Head(nq).id
  BY Zenon
<1>3. /\ nq # <<>> /\ nq' = Tail(nq) /\ Head(nq).type = type
      /\ prox' = ReleaseOnNet(p, [prox EXCEPT ![p].actual = "busy"])
      /\ UNCHANGED <<stream, acc, uq, waiting, faults>>
  BY <1>1, <1>2, Zenon DEF FireAsycConnect, NetFires
<1>4. p \in Proxies /\ prox[p] \in Proxy /\ prox \in [Proxies -> Proxy]
  BY <1>2, <1>3, HeadRefers
<1>5. PICK s, a, c, i, d \in Flag : HeadRefer(type, p, s, a, c, i, d)
  <2>1. nq # <<>> /\ nq' = Tail(nq) /\ uq' = uq /\ stream' = stream /\ Head(nq).type = type
    BY <1>3, Zenon
  <2> QED
    BY <1>2, <2>1, HeadRefers, Zenon
<1>6. a = TRUE
  BY <1>1, <1>5, Zenon DEF Flag, HeadRefer
<1>7. PICK x, y : x = prox[p] /\ y = [x EXCEPT !.actual = "busy", !.refs = @ - 1]
  BY Zenon
<1>8. x.refs # 1 /\ y \in Proxy /\ Held(y, s, FALSE, c, i, d)
  <2>1. x \in Proxy /\ Held(x, s, TRUE, c, i, d)
    BY <1>4, <1>5, <1>6, <1>7, Zenon DEF HeadRefer
  <2> QED
    BY <1>7, <2>1, AsycHeld, Zenon
<1>9. prox' = [prox EXCEPT ![p] = y]
  BY <1>3, <1>4, <1>7, <1>8 DEF ReleaseOnNet, Proxy
<1>10. y.stopped = prox[p].stopped
  BY <1>4, <1>7, Zenon DEF Proxy
<1>11. PICK f \in Flag : f = FALSE
  BY Zenon DEF Flag
<1>12. Refer(p, s, f, c, i, d)' /\ Held(y, s, f, c, i, d)
  BY <1>1, <1>5, <1>8, <1>11, Zenon DEF HeadRefer
<1> QED
  BY <1>2, <1>3, <1>8, <1>9, <1>10, <1>12, FireProxy, Zenon

\* CFSEventCancelConnect finds a connector, and a proxy it destroys is stopped.
LEMMA FireCancelConnectInv == ASSUME PInv, FireCancelConnect PROVE PInv'
<1>1. PICK type \in ProxyEvents : type = "CancelConnect"
  BY Zenon DEF ProxyEvents
<1>2. PICK p : p = Head(nq).id
  BY Zenon
<1>3. /\ nq # <<>> /\ nq' = Tail(nq) /\ Head(nq).type = type
      /\ prox' = ReleaseOnNet(p, [prox EXCEPT ![p].actual = "none"])
      /\ faults' = faults
           \cup (IF prox[p].actual = "none" THEN {"NoActual"} ELSE {})
           \cup (IF prox[p].refs = 1 THEN DestroyFaults(p) ELSE {})
      /\ UNCHANGED <<stream, acc, uq, waiting>>
  BY <1>1, <1>2 DEF FireCancelConnect, NetFires
<1>4. p \in Proxies /\ prox[p] \in Proxy /\ prox \in [Proxies -> Proxy]
  BY <1>2, <1>3, HeadRefers, Zenon
<1>5. PICK s, a, c, i, d \in Flag : HeadRefer(type, p, s, a, c, i, d)
  <2>1. nq # <<>> /\ nq' = Tail(nq) /\ uq' = uq /\ stream' = stream /\ Head(nq).type = type
    BY <1>3, Zenon
  <2> QED
    BY <1>2, <2>1, HeadRefers, Zenon
<1>6. a = FALSE /\ c = TRUE
  BY <1>1, <1>5, Zenon DEF Flag, HeadRefer
<1>7. PICK x, y : /\ x = prox[p]
                  /\ y = [life |-> IF x.refs = 1 THEN "dead" ELSE x.life, stopped |-> x.stopped,
                          refs |-> x.refs - 1, actual |-> "none"]
  BY Zenon
<1>8. x.actual # "none" /\ x.stopped /\ y \in Proxy /\ Held(y, s, FALSE, FALSE, i, d)
  <2>1. x \in Proxy /\ Held(x, s, FALSE, TRUE, i, d)
    BY <1>4, <1>5, <1>6, <1>7, Zenon DEF HeadRefer
  <2> QED
    BY <1>7, <2>1, CancelHeld, ZenonT(30)
<1>9. prox' = [prox EXCEPT ![p] = y]
  BY <1>3, <1>4, <1>7, <1>8 DEF ReleaseOnNet, Proxy
<1>10. y.stopped = prox[p].stopped /\ faults' = faults
  BY <1>3, <1>7, <1>8, Zenon DEF DestroyFaults
<1>11. PICK f \in Flag : f = FALSE
  BY Zenon DEF Flag
<1>12. Refer(p, s, a, f, i, d)' /\ Held(y, s, a, f, i, d)
  BY <1>1, <1>5, <1>6, <1>8, <1>11, Zenon DEF HeadRefer
<1> QED
  BY <1>2, <1>3, <1>8, <1>9, <1>10, <1>12, FireProxy, Zenon

\* The delete event destroys the proxy.
LEMMA FireDeleteInv == ASSUME PInv, FireDelete PROVE PInv'
<1>1. PICK type \in ProxyEvents : type = "Delete"
  BY Zenon DEF ProxyEvents
<1>2. PICK p : p = Head(nq).id
  BY Zenon
<1>3. /\ nq # <<>> /\ nq' = Tail(nq) /\ Head(nq).type = type
      /\ prox' = [prox EXCEPT ![p].life = "dead", ![p].actual = "none"]
      /\ UNCHANGED <<stream, acc, uq, waiting, faults>>
  BY <1>1, <1>2, Zenon DEF FireDelete, NetFires
<1>4. p \in Proxies /\ prox[p] \in Proxy /\ prox \in [Proxies -> Proxy]
  BY <1>2, <1>3, HeadRefers
<1>5. PICK s, a, c, i, d \in Flag : HeadRefer(type, p, s, a, c, i, d)
  <2>1. nq # <<>> /\ nq' = Tail(nq) /\ uq' = uq /\ stream' = stream /\ Head(nq).type = type
    BY <1>3, Zenon
  <2> QED
    BY <1>2, <2>1, HeadRefers, Zenon
<1>6. d = TRUE
  BY <1>1, <1>5, ZenonT(30) DEF Flag, HeadRefer
<1>7. PICK x, y : x = prox[p] /\ y = [x EXCEPT !.life = "dead", !.actual = "none"]
  BY ZenonT(30)
<1>8. y \in Proxy /\ Held(y, s, a, c, i, FALSE)
  <2>1. x \in Proxy /\ Held(x, s, a, c, i, TRUE)
    BY <1>4, <1>5, <1>6, <1>7, Zenon DEF HeadRefer
  <2> QED
    BY <1>7, <2>1, DeleteHeld, Zenon
<1>9. prox' = [prox EXCEPT ![p] = y]
  BY <1>3, <1>4, <1>7, <1>8, Zenon DEF Proxy
<1>10. y.stopped = prox[p].stopped
  BY <1>4, <1>7, Zenon DEF Proxy
<1>11. PICK f \in Flag : f = FALSE
  BY Zenon DEF Flag
<1>12. Refer(p, s, a, c, i, f)' /\ Held(y, s, a, c, i, f)
  BY <1>1, <1>5, <1>8, <1>11, Zenon DEF HeadRefer
<1> QED
  BY <1>2, <1>3, <1>8, <1>9, <1>10, <1>12, FireProxy, Zenon

\* The connector answers and its indication takes a reference.
LEMMA OnConnectIndicationInv ==
  ASSUME PInv, NEW p \in Proxies, OnConnectIndication(p) PROVE PInv'
<1>1. PICK type : type \in {"Connected", "Failed"} /\ uq' = Append(uq, Ev(type, p))
  BY Zenon DEF OnConnectIndication
<1>2. /\ prox[p].actual = "busy"
      /\ prox' = [prox EXCEPT ![p].actual = "idle", ![p].refs = @ + 1]
      /\ stream' = stream /\ acc' = acc /\ nq' = nq /\ waiting' = waiting /\ faults' = faults
  BY Zenon DEF OnConnectIndication
<1>3. prox[p] \in Proxy /\ prox \in [Proxies -> Proxy]
  BY Zenon DEF PInv, ProxyType
<1>4. PICK s, a, c, i, d \in Flag : Refer(p, s, a, c, i, d) /\ Held(prox[p], s, a, c, i, d)
  BY HeldAt, Zenon
<1>5. PICK x, y : x = prox[p] /\ y = [x EXCEPT !.actual = "idle", !.refs = @ + 1]
  BY Zenon
<1>6. ~i /\ y \in Proxy /\ Held(y, s, a, c, TRUE, d)
  <2>1. x \in Proxy /\ x.actual = "busy" /\ Held(x, s, a, c, i, d)
    BY <1>2, <1>3, <1>4, <1>5, Zenon
  <2> QED
    BY <1>5, <2>1, AnswerHeld, ZenonT(90)
<1>7. prox' = [prox EXCEPT ![p] = y] /\ y.stopped = prox[p].stopped
  BY <1>2, <1>3, <1>5, Zenon DEF Proxy
<1>8. prox' \in [Proxies -> Proxy] /\ prox'[p] = y /\ \A o \in Proxies \ {p} : prox'[o] = prox[o]
  BY <1>3, <1>6, <1>7, Zenon
<1>9. uq \in Seq(UserEvent) /\ \A o \in Proxies : Once(uq, Indication(o))
  BY Zenon DEF PInv, ProxyType, QueueInv
<1>10. Ev(type, p) \in UserEvent /\ \A o : Ev(type, p) \in Indication(o) <=> o = p
  BY <1>1 DEF UserEvent, Indication, Ev
<1>11. /\ uq' \in Seq(UserEvent)
       /\ \A S : Has(uq', S) <=> Has(uq, S) \/ Ev(type, p) \in S
       /\ \A S : Once(uq, S) /\ (Ev(type, p) \notin S \/ ~Has(uq, S)) => Once(uq', S)
  <2>1. PICK e \in UserEvent : e = Ev(type, p)
    BY <1>10, Zenon
  <2>2. uq' = Append(uq, e)
    BY <1>1, <2>1, Zenon
  <2>3. /\ uq' \in Seq(UserEvent)
        /\ \A S : Has(uq', S) <=> Has(uq, S) \/ e \in S
        /\ \A S : Once(uq, S) /\ (e \notin S \/ ~Has(uq, S)) => Once(uq', S)
    <3>1. uq' \in Seq(UserEvent)
      BY <1>9, <2>2, QueueAppend, Zenon
    <3>2. \A S : Has(uq', S) <=> Has(uq, S) \/ e \in S
      BY <1>9, <2>2, QueueAppend, Zenon
    <3>3. \A S : Once(uq, S) /\ (e \notin S \/ ~Has(uq, S)) => Once(uq', S)
      BY <1>9, <2>2, QueueAppend, Zenon
    <3> QED
      BY <3>1, <3>2, <3>3, Zenon
  <2> QED
    BY <2>1, <2>3, Zenon
<1>12. ~Has(uq, Indication(p))
  BY <1>4, <1>6 DEF Refer
<1>13. \A o \in Proxies : Once(uq', Indication(o))
  BY <1>9, <1>10, <1>11, <1>12, Zenon
<1>14. \A o : Has(uq', Indication(o)) <=> Has(uq, Indication(o)) \/ o = p
  BY <1>10, <1>11, Zenon
<1>15. PICK f \in Flag : f = TRUE
  BY Zenon DEF Flag
<1>16. Refer(p, s, a, c, f, d)'
  <2>1. Has(uq', Indication(p))
    BY <1>14, Zenon
  <2> QED
    BY <1>2, <1>4, <1>15, <2>1 DEF Refer
<1>17. Held(prox'[p], s, a, c, f, d)
  BY <1>6, <1>8, <1>15, Zenon
<1>18. Held(prox'[p], stream'.con = p, Has(nq', Asyc(p)), Has(nq', Cancel(p)),
            Has(uq', Indication(p)), Has(nq', Delete(p)))
  BY <1>16, <1>17, HeldMade, Zenon
<1>19. StreamInv'
  BY <1>2, <1>7, <1>8 DEF PInv, StreamInv
<1>20. \A o \in Proxies \ {p} : /\ Has(nq', Asyc(o)) <=> Has(nq, Asyc(o))
                                /\ Has(nq', Cancel(o)) <=> Has(nq, Cancel(o))
                                /\ Has(uq', Indication(o)) <=> Has(uq, Indication(o))
                                /\ Has(nq', Delete(o)) <=> Has(nq, Delete(o))
  BY <1>2, <1>14, Zenon
<1>21. /\ nq' \in Seq(NetEvent) /\ ConnectOrder(nq') /\ ListenOrder(nq')
       /\ Has(nq', Start) <=> Has(nq, Start)
       /\ Has(nq', Stop) <=> Has(nq, Stop)
  BY <1>2 DEF PInv, ProxyType, QueueInv
<1>22. stream' \in [con : Proxies \cup {0}, trp : Proxies \cup {0}] /\ stream'.con = stream.con
  BY <1>2, Zenon DEF PInv, ProxyType
<1> QED
  BY <1>2, <1>8, <1>11, <1>13, <1>18, <1>19, <1>20, <1>21, <1>22, OneProxy, Zenon

-----------------------------------------------------------------------------
(* Events that are posted under a condition *)

\* A queue of the network thread, and what appending an event of type to it changes.
NetQueue(q) == q \in Seq(NetEvent) /\ ConnectOrder(q) /\ ListenOrder(q)

Posted(q, r, b, type, p) ==
  /\ NetQueue(r)
  /\ \A o : /\ Has(r, Asyc(o)) <=> Has(q, Asyc(o)) \/ (b /\ type = "AsycConnect" /\ p = o)
            /\ Has(r, Cancel(o)) <=> Has(q, Cancel(o)) \/ (b /\ type = "CancelConnect" /\ p = o)
            /\ Has(r, Delete(o)) <=> Has(q, Delete(o)) \/ (b /\ type = "Delete" /\ p = o)
  /\ Has(r, Start) <=> Has(q, Start)
  /\ Has(r, Stop) <=> Has(q, Stop)

\* It is posted if b.
LEMMA Post ==
  ASSUME NEW q, NetQueue(q), NEW b \in Flag, NEW p, NEW type,
         NEW r, r = q \o (IF b THEN <<Ev(type, p)>> ELSE <<>>),
         b => Ev(type, p) \in NetEvent /\ type # "StartListen" /\ type # "StopListen",
         b /\ type = "AsycConnect" => ~Has(q, Asyc(p)) /\ ~Has(q, Cancel(p)),
         b /\ type = "CancelConnect" => ~Has(q, Cancel(p)),
         b /\ type = "Delete" => ~Has(q, Delete(p))
  PROVE  Posted(q, r, b, type, p)
<1>1. q \in Seq(NetEvent) /\ ConnectOrder(q) /\ ListenOrder(q)
  BY Zenon DEF NetQueue
<1>2. CASE ~b
  <2>1. r = q
    BY <1>1, <1>2
  <2> QED
    BY <1>1, <1>2, <2>1 DEF NetQueue, Posted
<1>3. CASE b
  <2>1. PICK e : e = Ev(type, p)
    BY Zenon
  <2>2. r = Append(q, e)
    BY <1>1, <1>3, <2>1
  <2>3. r = Append(q, Ev(type, p)) /\ Ev(type, p) \in NetEvent
    BY <1>3, <2>1, <2>2, Zenon
  <2>4. ConnectOrder(r)
    BY <1>1, <1>3, <2>3, PushConnectOrder, Zenon
  <2>5. ListenOrder(r)
    BY <1>1, <1>3, <2>3, PushListenOrder, Zenon
  <2>6. /\ r \in Seq(NetEvent)
        /\ \A o : /\ Has(r, Asyc(o)) <=> Has(q, Asyc(o)) \/ (type = "AsycConnect" /\ p = o)
                  /\ Has(r, Cancel(o)) <=> Has(q, Cancel(o)) \/ (type = "CancelConnect" /\ p = o)
                  /\ Has(r, Delete(o)) <=> Has(q, Delete(o)) \/ (type = "Delete" /\ p = o)
        /\ Has(r, Start) <=> Has(q, Start) \/ (type = "StartListen" /\ p = 0)
        /\ Has(r, Stop) <=> Has(q, Stop) \/ (type = "StopListen" /\ p = 0)
    BY <1>1, <2>3, Push, Zenon
  <2> QED
    BY <1>3, <2>4, <2>5, <2>6, Zenon DEF NetQueue, Posted
<1> QED
  BY <1>2, <1>3, Zenon

\* A proxy that is not stopped is the connector of the stream, which has no transport.
LEMMA Connecting ==
  ASSUME PInv, NEW o \in Proxies, ~prox[o].stopped
  PROVE  stream.con = o /\ stream.trp = 0 /\ stream = [con |-> o, trp |-> 0]
<1>1. PICK s, a, c, i, d \in Flag : Refer(o, s, a, c, i, d) /\ Held(prox[o], s, a, c, i, d)
  BY HeldAt, Zenon
<1>2. s
  BY <1>1, Zenon DEF Held
<1>3. stream.con = o
  BY <1>1, <1>2, Zenon DEF Refer
<1>4. stream.trp = 0 /\ stream \in [con : Proxies \cup {0}, trp : Proxies \cup {0}]
  BY Zenon DEF PInv, StreamInv, ProxyType
<1> QED
  BY <1>3, <1>4, Zenon

\* The queue after a fired indication.
LEMMA IndicationPosts ==
  ASSUME NEW q, NetQueue(q), NEW p \in Proxies, NEW b \in Flag, NEW g \in Flag,
         ~Has(q, Delete(p)),
         NEW r, r = q \o (IF b THEN <<Ev("Disconnect", p)>> ELSE <<>>)
                      \o (IF g THEN <<Ev("Delete", p)>> ELSE <<>>)
  PROVE  Posted(q, r, g, "Delete", p)
<1>1. PICK t1, t2 : t1 = "Disconnect" /\ t2 = "Delete"
  BY Zenon
<1>2. PICK m : m = q \o (IF b THEN <<Ev(t1, p)>> ELSE <<>>)
  BY ZenonT(30)
<1>3. /\ t1 # "AsycConnect" /\ t1 # "CancelConnect" /\ t1 # "Delete"
      /\ t1 # "StartListen" /\ t1 # "StopListen" /\ Ev(t1, p) \in NetEvent
      /\ t2 # "AsycConnect" /\ t2 # "CancelConnect"
      /\ t2 # "StartListen" /\ t2 # "StopListen" /\ Ev(t2, p) \in NetEvent
  BY <1>1 DEF NetEvent, Transports
<1>4. Posted(q, m, b, t1, p)
  BY <1>2, <1>3, Post, Zenon
<1>5. NetQueue(m) /\ ~Has(m, Delete(p))
  BY <1>3, <1>4, Zenon DEF Posted
<1>6. r = m \o (IF g THEN <<Ev(t2, p)>> ELSE <<>>)
  BY <1>1, <1>2, Zenon
<1>7. Posted(m, r, g, t2, p)
  BY <1>3, <1>5, <1>6, Post, Zenon
<1> QED
  BY <1>1, <1>3, <1>4, <1>7, Zenon DEF Posted

\* What Posted says of a delete event.
LEMMA PostedDelete ==
  ASSUME NEW q, NEW r, NEW g \in Flag, NEW p, Posted(q, r, g, "Delete", p)
  PROVE  /\ r \in Seq(NetEvent) /\ ConnectOrder(r) /\ ListenOrder(r)
         /\ Has(r, Start) <=> Has(q, Start)
         /\ Has(r, Stop) <=> Has(q, Stop)
         /\ \A o : /\ Has(r, Asyc(o)) <=> Has(q, Asyc(o))
                   /\ Has(r, Cancel(o)) <=> Has(q, Cancel(o))
                   /\ Has(r, Delete(o)) <=> Has(q, Delete(o)) \/ (g /\ p = o)
BY Zenon DEF Posted, NetQueue

\* The indication of a connector is fired, of a stopped proxy or of the
\* stream's.
LEMMA FireOnConnectIndicationInv == ASSUME PInv, FireOnConnectIndication PROVE PInv'
<1>1. PICK p : p = Head(uq).id
  BY Zenon
<1>2. /\ uq # <<>> /\ Head(uq).type \in {"Connected", "Failed"} /\ uq' = Tail(uq)
      /\ acc' = acc /\ waiting' = waiting
  BY Zenon DEF FireOnConnectIndication
<1>3. uq \in Seq(UserEvent) /\ \A o \in Proxies : Once(uq, Indication(o))
  BY Zenon DEF PInv, ProxyType, QueueInv
<1>4. uq' \in Seq(UserEvent) /\ Head(uq) \in UserEvent
  BY <1>2, <1>3, QueueTail, Zenon
<1>5. p \in Proxies /\ \A o : Head(uq) \in Indication(o) <=> o = p
  BY <1>1, <1>2, <1>4 DEF UserEvent, Indication, Ev
<1>6. /\ \A S : Head(uq) \notin S => (Has(uq', S) <=> Has(uq, S))
      /\ \A S : Head(uq) \in S => Has(uq, S) /\ (Once(uq, S) => ~Has(uq', S))
      /\ \A S : Once(uq, S) => Once(uq', S)
  <2>1. \A S : Head(uq) \notin S => (Has(uq', S) <=> Has(uq, S))
    BY <1>2, <1>3, QueueTail, Zenon
  <2>2. \A S : Head(uq) \in S => Has(uq, S) /\ (Once(uq, S) => ~Has(uq', S))
    BY <1>2, <1>3, QueueTail, Zenon
  <2>3. \A S : Once(uq, S) => Once(uq', S)
    BY <1>2, <1>3, QueueTail, Zenon
  <2> QED
    BY <2>1, <2>2, <2>3, Zenon
<1>7. /\ \A o \in Proxies : Once(uq', Indication(o))
      /\ Has(uq, Indication(p)) /\ ~Has(uq', Indication(p))
      /\ \A o \in Proxies \ {p} : Has(uq', Indication(o)) <=> Has(uq, Indication(o))
  <2>1. \A o \in Proxies : Once(uq', Indication(o))
    BY <1>3, <1>6, Zenon
  <2>2. Has(uq, Indication(p)) /\ ~Has(uq', Indication(p))
    BY <1>3, <1>5, <1>6, Zenon
  <2>3. ASSUME NEW o \in Proxies, o # p PROVE Has(uq', Indication(o)) <=> Has(uq, Indication(o))
    BY <1>5, <1>6, <2>3, Zenon
  <2> QED
    BY <2>1, <2>2, <2>3, Zenon
<1>8. prox[p] \in Proxy /\ prox \in [Proxies -> Proxy]
  BY <1>5, Zenon DEF PInv, ProxyType
<1>9. PICK s, a, c, i, d \in Flag : Refer(p, s, a, c, i, d) /\ Held(prox[p], s, a, c, i, d)
  BY <1>5, HeldAt, Zenon
<1>10. i = TRUE
  BY <1>7, <1>9, Zenon DEF Flag, Refer
<1>11. PICK x, y : x = prox[p] /\ y = [x EXCEPT !.stopped = TRUE, !.refs = @ - 1]
  BY Zenon
<1>12. PICK g \in Flag : g = (x.refs = 1)
  BY Zenon DEF Flag
<1>13. y \in Proxy /\ ~d /\ (~x.stopped => s) /\ Held(y, s, a, c, FALSE, g)
  <2>1. x \in Proxy /\ Held(x, s, a, c, TRUE, d)
    BY <1>8, <1>9, <1>10, <1>11, Zenon
  <2>2. y \in Proxy /\ ~d /\ (~x.stopped => s) /\ Held(y, s, a, c, FALSE, x.refs = 1)
    BY <1>11, <2>1, IndicationHeld, Zenon
  <2> QED
    BY <1>12, <2>2, Zenon
<1>14. prox' = [prox EXCEPT ![p] = y]
  <2>1. PICK r : r = x.refs - 1
    OBVIOUS
  <2>2. y = [x EXCEPT !.stopped = TRUE, !.refs = r]
    BY <1>11, <2>1, Zenon
  <2>3. CASE x.stopped
    <3>1. prox' = [prox EXCEPT ![p].refs = r]
      BY <1>1, <1>11, <2>1, <2>3 DEF FireOnConnectIndication, ReleaseOnUser
    <3>2. y = [x EXCEPT !.refs = r]
      BY <1>8, <1>11, <2>2, <2>3, ZenonT(30) DEF Proxy
    <3> QED
      BY <1>5, <1>8, <1>11, <3>1, <3>2, ZenonT(90)
  <2>4. CASE ~x.stopped
    <3>1. prox' = [[prox EXCEPT ![p].stopped = TRUE] EXCEPT ![p].refs = @ - 1]
      BY <1>1, <1>11, <2>4, ZenonT(30) DEF FireOnConnectIndication, ReleaseOnUser
    <3>2. [prox EXCEPT ![p].stopped = TRUE][p].refs = x.refs
      BY <1>5, <1>8, <1>11, Zenon DEF Proxy
    <3>3. prox' = [[prox EXCEPT ![p].stopped = TRUE] EXCEPT ![p].refs = r]
      BY <2>1, <3>1, <3>2, ZenonT(30)
    <3> QED
      BY <1>5, <1>8, <1>11, <2>2, <3>3, ZenonT(30) DEF Proxy
  <2> QED
    BY <2>3, <2>4, Zenon
<1>15. prox' \in [Proxies -> Proxy] /\ prox'[p] = y /\ \A o \in Proxies \ {p} : prox'[o] = prox[o]
  BY <1>5, <1>8, <1>13, <1>14, Zenon
<1>16. PICK b \in Flag :
         nq' = nq \o (IF b THEN <<Ev("Disconnect", p)>> ELSE <<>>)
                  \o (IF g THEN <<Ev("Delete", p)>> ELSE <<>>)
  <2>1. nq \in Seq(NetEvent)
    BY Zenon DEF PInv, ProxyType
  <2>2. nq \o <<>> = nq
    BY <2>1
  <2>3. DeleteEvent(p) = IF g THEN <<Ev("Delete", p)>> ELSE <<>>
    BY <1>11, <1>12, Zenon DEF DeleteEvent
  <2>4. CASE prox[p].stopped
    BY <1>1, <2>3, <2>4, ZenonT(30) DEF FireOnConnectIndication, Flag
  <2>5. CASE ~prox[p].stopped
    BY <1>1, <2>2, <2>3, <2>5, ZenonT(30) DEF FireOnConnectIndication, Flag
  <2> QED
    BY <2>4, <2>5, Zenon
<1>17. NetQueue(nq) /\ ~Has(nq, Delete(p))
  BY <1>9, <1>13, Zenon DEF Refer, PInv, ProxyType, QueueInv, NetQueue
<1>18. Posted(nq, nq', g, "Delete", p)
  BY <1>5, <1>16, <1>17, IndicationPosts, Zenon
<1>19. /\ nq' \in Seq(NetEvent) /\ ConnectOrder(nq') /\ ListenOrder(nq')
       /\ Has(nq', Start) <=> Has(nq, Start)
       /\ Has(nq', Stop) <=> Has(nq, Stop)
       /\ \A o : /\ Has(nq', Asyc(o)) <=> Has(nq, Asyc(o))
                 /\ Has(nq', Cancel(o)) <=> Has(nq, Cancel(o))
                 /\ Has(nq', Delete(o)) <=> Has(nq, Delete(o)) \/ (g /\ p = o)
  BY <1>18, PostedDelete, Zenon
<1>20. PICK f \in Flag : f = FALSE
  BY Zenon DEF Flag
<1>21. /\ stream' \in [con : Proxies \cup {0}, trp : Proxies \cup {0}] /\ stream'.con = stream.con
       /\ faults' = faults /\ (prox[p].stopped => stream' = stream)
  <2>1. stream \in [con : Proxies \cup {0}, trp : Proxies \cup {0}]
    BY DEF PInv, ProxyType
  <2>2. CASE prox[p].stopped
    BY <1>1, <2>1, <2>2, ZenonT(30) DEF FireOnConnectIndication
  <2>3. CASE ~prox[p].stopped
    <3>1. stream = [con |-> p, trp |-> 0]
      BY <1>5, <2>3, Connecting, Zenon
    <3> QED
      BY <1>1, <1>5, <2>1, <2>3, <3>1, ZenonT(30) DEF FireOnConnectIndication
  <2> QED
    BY <2>2, <2>3, Zenon
<1>22. Refer(p, s, a, c, f, g)'
  BY <1>7, <1>9, <1>13, <1>19, <1>20, <1>21 DEF Refer
<1>23. Held(prox'[p], s, a, c, f, g)
  BY <1>13, <1>15, <1>20, Zenon
<1>24. Held(prox'[p], stream'.con = p, Has(nq', Asyc(p)), Has(nq', Cancel(p)),
            Has(uq', Indication(p)), Has(nq', Delete(p)))
  BY <1>22, <1>23, HeldMade, Zenon
<1>25. StreamInv'
  <2> SUFFICES ASSUME NEW o \in Proxies, ~prox'[o].stopped PROVE stream'.trp = 0
    BY DEF StreamInv
  <2>1. y.stopped = TRUE
    BY <1>8, <1>11, Zenon DEF Proxy
  <2>2. o # p /\ prox'[o] = prox[o]
    BY <1>15, <2>1
  <2>3. stream.con = o /\ stream.trp = 0
    BY <2>2, Connecting, Zenon
  <2>4. prox[p].stopped
    BY <1>5, <2>2, <2>3, Connecting
  <2> QED
    BY <1>21, <2>3, <2>4
<1>26. \A o \in Proxies \ {p} : /\ Has(nq', Asyc(o)) <=> Has(nq, Asyc(o))
                                /\ Has(nq', Cancel(o)) <=> Has(nq, Cancel(o))
                                /\ Has(uq', Indication(o)) <=> Has(uq, Indication(o))
                                /\ Has(nq', Delete(o)) <=> Has(nq, Delete(o))
  BY <1>7, <1>19, Zenon
<1> QED
  BY <1>2, <1>4, <1>5, <1>7, <1>15, <1>19, <1>21, <1>24, <1>25, <1>26, OneProxy, ZenonT(30)

\* CancelConnect of the stream's connector: the first step of Connect or Close.
LEMMA CancelConnectInv == ASSUME PInv, NEW next, CancelConnect(next) PROVE PInv'
<1>1. PICK p, type : p = stream.con /\ type = "CancelConnect"
  BY Zenon
<1>2. /\ p # 0 /\ ~prox[p].stopped
      /\ prox' = [prox EXCEPT ![p].stopped = TRUE, ![p].refs = @ + 1]
      /\ nq' = Append(nq, Ev(type, p))
      /\ UNCHANGED <<stream, acc, uq, waiting, faults>>
  BY <1>1, Zenon DEF CancelConnect
<1>3. /\ p \in Proxies /\ prox \in [Proxies -> Proxy]
      /\ stream \in [con : Proxies \cup {0}, trp : Proxies \cup {0}] /\ uq \in Seq(UserEvent)
      /\ \A o \in Proxies : Once(uq, Indication(o))
  BY <1>1, <1>2, Zenon DEF PInv, ProxyType, QueueInv
<1>4. PICK s, a, c, i, d \in Flag : Refer(p, s, a, c, i, d) /\ Held(prox[p], s, a, c, i, d)
  BY <1>3, HeldAt, Zenon
<1>5. PICK x, y : x = prox[p] /\ y = [x EXCEPT !.stopped = TRUE, !.refs = @ + 1]
  BY Zenon
<1>6. x \in Proxy
  BY <1>3, <1>5, Zenon
<1>7. PICK b \in Flag : b = TRUE
  BY Zenon DEF Flag
<1>8. ~c /\ y \in Proxy /\ Held(y, s, a, b, i, d)
  <2>1. Held(x, s, a, c, i, d) /\ ~x.stopped
    BY <1>2, <1>4, <1>5, Zenon
  <2>2. s = TRUE /\ c = FALSE
    BY <2>1, Zenon DEF Held, Flag
  <2>3. Held(x, TRUE, a, FALSE, i, d)
    BY <2>1, <2>2, Zenon
  <2>4. y \in Proxy /\ Held(y, TRUE, a, TRUE, i, d)
    BY <1>5, <1>6, <2>1, <2>3, StopHeld, Zenon
  <2> QED
    BY <1>7, <2>2, <2>4, Zenon
<1>9. prox' = [prox EXCEPT ![p] = y]
  BY <1>2, <1>3, <1>5, <1>6 DEF Proxy
<1>10. prox' \in [Proxies -> Proxy] /\ prox'[p] = y /\ \A o \in Proxies \ {p} : prox'[o] = prox[o]
  BY <1>3, <1>8, <1>9, Zenon
<1>11. NetQueue(nq) /\ ~Has(nq, Cancel(p))
  BY <1>4, <1>8, Zenon DEF Refer, PInv, ProxyType, QueueInv, NetQueue
<1>12. Posted(nq, nq', b, type, p)
  <2>1. nq' = nq \o (IF b THEN <<Ev(type, p)>> ELSE <<>>)
    <3>1. nq \in Seq(NetEvent)
      BY <1>11, Zenon DEF NetQueue
    <3>2. PICK e : e = Ev(type, p)
      BY Zenon
    <3> QED
      BY <1>2, <1>7, <3>1, <3>2
  <2>2. /\ Ev(type, p) \in NetEvent /\ type # "StartListen" /\ type # "StopListen"
        /\ type # "AsycConnect" /\ type # "Delete"
    BY <1>1, <1>3 DEF NetEvent
  <2> QED
    BY <1>11, <2>1, <2>2, Post, Zenon
<1>13. /\ nq' \in Seq(NetEvent) /\ ConnectOrder(nq') /\ ListenOrder(nq')
       /\ Has(nq', Start) <=> Has(nq, Start)
       /\ Has(nq', Stop) <=> Has(nq, Stop)
       /\ \A o : /\ Has(nq', Asyc(o)) <=> Has(nq, Asyc(o))
                 /\ Has(nq', Cancel(o)) <=> Has(nq, Cancel(o)) \/ p = o
                 /\ Has(nq', Delete(o)) <=> Has(nq, Delete(o))
  BY <1>1, <1>7, <1>12 DEF Posted, NetQueue
<1>14. Refer(p, s, a, b, i, d)'
  BY <1>2, <1>4, <1>7, <1>13, Zenon DEF Refer
<1>15. Held(prox'[p], stream'.con = p, Has(nq', Asyc(p)), Has(nq', Cancel(p)),
            Has(uq', Indication(p)), Has(nq', Delete(p)))
  BY <1>8, <1>10, <1>14, HeldMade, Zenon
<1>16. StreamInv'
  <2>1. stream.trp = 0
    BY <1>2, <1>3, Connecting, Zenon
  <2> QED
    BY <1>2, <2>1, Zenon DEF StreamInv
<1>17. /\ uq' \in Seq(UserEvent) /\ \A o \in Proxies : Once(uq', Indication(o))
       /\ stream' \in [con : Proxies \cup {0}, trp : Proxies \cup {0}]
       /\ stream'.con = stream.con /\ UNCHANGED <<acc, waiting, faults>>
  BY <1>2, <1>3, Zenon
<1>18. \A o \in Proxies \ {p} : /\ Has(nq', Asyc(o)) <=> Has(nq, Asyc(o))
                                /\ Has(nq', Cancel(o)) <=> Has(nq, Cancel(o))
                                /\ Has(uq', Indication(o)) <=> Has(uq, Indication(o))
                                /\ Has(nq', Delete(o)) <=> Has(nq, Delete(o))
  BY <1>2, <1>13, Zenon
<1> QED
  BY <1>3, <1>10, <1>13, <1>15, <1>16, <1>17, <1>18, OneProxy, ZenonT(30)

-----------------------------------------------------------------------------
(* The stream lets go of its connector and its transport *)

\* The two queues hold the same events about connectors and listening.
SameEvents(q, r) ==
  /\ \A o : /\ Has(r, Asyc(o)) <=> Has(q, Asyc(o))
            /\ Has(r, Cancel(o)) <=> Has(q, Cancel(o))
            /\ Has(r, Delete(o)) <=> Has(q, Delete(o))
  /\ Has(r, Start) <=> Has(q, Start)
  /\ Has(r, Stop) <=> Has(q, Stop)

\* The proxy o is x, the stream does not refer to it and the queue is q.
Dropped(x, o, q) ==
  Held(x, FALSE, Has(q, Asyc(o)), Has(q, Cancel(o)), Has(uq, Indication(o)), Has(q, Delete(o)))

DropRefer(q, o, a, c, i, d) ==
  /\ a <=> Has(q, Asyc(o))
  /\ c <=> Has(q, Cancel(o))
  /\ i <=> Has(uq, Indication(o))
  /\ d <=> Has(q, Delete(o))

\* It is dropped if its references are those of the queues.
LEMMA DroppedMade ==
  ASSUME NEW x, NEW o, NEW q, NEW a \in Flag, NEW c \in Flag, NEW i \in Flag, NEW d \in Flag,
         Held(x, FALSE, a, c, i, d), DropRefer(q, o, a, c, i, d)
  PROVE  Dropped(x, o, q)
<1>1. /\ a = Has(q, Asyc(o)) /\ c = Has(q, Cancel(o))
      /\ i = Has(uq, Indication(o)) /\ d = Has(q, Delete(o))
  BY Zenon DEF Has, Flag, DropRefer
<1> QED
  BY <1>1, Zenon DEF Dropped

\* A proxy the stream does not refer to is stopped and has been dropped.
LEMMA NotStreams ==
  ASSUME PInv, NEW o \in Proxies, stream.con # o, NEW r,
         Has(r, Asyc(o)) <=> Has(nq, Asyc(o)),
         Has(r, Cancel(o)) <=> Has(nq, Cancel(o)),
         Has(r, Delete(o)) <=> Has(nq, Delete(o))
  PROVE  prox[o].stopped /\ Dropped(prox[o], o, r)
<1>1. PICK s, a, c, i, d \in Flag : Refer(o, s, a, c, i, d) /\ Held(prox[o], s, a, c, i, d)
  BY HeldAt, Zenon
<1>2. s = FALSE
  BY <1>1 DEF Refer, Flag
<1>3. Held(prox[o], FALSE, a, c, i, d)
  BY <1>1, <1>2, Zenon
<1>4. DropRefer(r, o, a, c, i, d)
  BY <1>1 DEF Refer, DropRefer
<1>5. Dropped(prox[o], o, r)
  BY <1>3, <1>4, DroppedMade, ZenonT(30)
<1>6. prox[o].stopped
  BY Connecting
<1> QED
  BY <1>5, <1>6

\* What is left when the stream has let its connector go, from a queue q that
\* tells as much as nq does.
LetGo(q, r, px, fs) ==
  /\ NetQueue(r) /\ fs = {} /\ px \in [Proxies -> Proxy]
  /\ \A o : Has(r, Asyc(o)) <=> Has(q, Asyc(o))
  /\ Has(r, Start) <=> Has(q, Start)
  /\ Has(r, Stop) <=> Has(q, Stop)
  /\ \A o \in Proxies : /\ px[o].stopped /\ Dropped(px[o], o, r)
                        /\ px[o].life = prox[o].life

\* Without a connector.
LEMMA LetNothingGo ==
  ASSUME PInv, NEW q, NetQueue(q), SameEvents(nq, q), stream.con = 0
  PROVE  LetGo(q, q, prox, {})
<1>1. prox \in [Proxies -> Proxy]
  BY DEF PInv, ProxyType
<1>2. ASSUME NEW o \in Proxies PROVE prox[o].stopped /\ Dropped(prox[o], o, q)
  <2>1. stream.con # o
    BY BoundsAssumption DEF Proxies
  <2>2. /\ Has(q, Asyc(o)) <=> Has(nq, Asyc(o))
        /\ Has(q, Cancel(o)) <=> Has(nq, Cancel(o))
        /\ Has(q, Delete(o)) <=> Has(nq, Delete(o))
    BY Zenon DEF SameEvents
  <2> QED
    BY <2>1, <2>2, NotStreams, Zenon
<1> QED
  BY <1>1, <1>2, Zenon DEF LetGo

\* The stream's proxy p becomes y and an event about it may be posted.
LEMMA LetOneGo ==
  ASSUME PInv, NEW q, NetQueue(q), SameEvents(nq, q), NEW p \in Proxies, stream.con = p,
         NEW y \in Proxy, y.stopped, y.life = prox[p].life,
         NEW b \in Flag, NEW type, type \in {"CancelConnect", "Delete"},
         NEW r, Posted(q, r, b, type, p), Dropped(y, p, r),
         NEW px, px = [prox EXCEPT ![p] = y]
  PROVE  LetGo(q, r, px, {})
<1>1. prox \in [Proxies -> Proxy]
  BY DEF PInv, ProxyType
<1>2. px \in [Proxies -> Proxy] /\ px[p] = y /\ \A o \in Proxies \ {p} : px[o] = prox[o]
  BY <1>1, Zenon
<1>3. /\ NetQueue(r)
      /\ \A o : Has(r, Asyc(o)) <=> Has(q, Asyc(o))
      /\ Has(r, Start) <=> Has(q, Start)
      /\ Has(r, Stop) <=> Has(q, Stop)
  BY DEF Posted
<1>4. ASSUME NEW o \in Proxies
      PROVE  px[o].stopped /\ Dropped(px[o], o, r) /\ px[o].life = prox[o].life
  <2>1. CASE o = p
    BY <1>2, <2>1, Zenon
  <2>2. CASE o # p
    <3>1. /\ Has(r, Asyc(o)) <=> Has(nq, Asyc(o))
          /\ Has(r, Cancel(o)) <=> Has(nq, Cancel(o))
          /\ Has(r, Delete(o)) <=> Has(nq, Delete(o))
      BY <2>2 DEF Posted, SameEvents
    <3>2. prox[o].stopped /\ Dropped(prox[o], o, r)
      BY <2>2, <3>1, NotStreams, Zenon
    <3>3. px[o] = prox[o]
      BY <1>2, <2>2
    <3> QED
      BY <3>2, <3>3, Zenon
  <2> QED
    BY <2>1, <2>2, Zenon
<1> QED
  BY <1>2, <1>3, <1>4, Zenon DEF LetGo

\* m_pConnector = NULL, after CancelConnect.
LEMMA LetConnectorGoes ==
  ASSUME PInv, stream.con # 0 => prox[stream.con].stopped, NEW q, NetQueue(q), SameEvents(nq, q), NEW r, r = q \o LetConnectorGo.evs
  PROVE  LetGo(q, r, LetConnectorGo.px, LetConnectorGo.faults)
<1> DEFINE p == stream.con
<1>1. /\ p \in Proxies \cup {0} /\ prox \in [Proxies -> Proxy] /\ q \in Seq(NetEvent)
  BY DEF PInv, ProxyType, NetQueue
<1>2. CASE p = 0
  <2>1. /\ LetConnectorGo.evs = <<>> /\ LetConnectorGo.px = prox /\ LetConnectorGo.faults = {}
    BY <1>2 DEF LetConnectorGo
  <2>2. r = q
    BY <1>1, <2>1
  <2>3. LetGo(q, q, prox, {})
    BY <1>2, LetNothingGo
  <2> QED
    BY <2>1, <2>2, <2>3, Zenon
<1> SUFFICES ASSUME p # 0 PROVE LetGo(q, r, LetConnectorGo.px, LetConnectorGo.faults)
  BY <1>2, Zenon
<1>3. p \in Proxies /\ stream.con = p
  BY <1>1
<1> HIDE DEF p
<1>4. PICK x : x = prox[p]
  BY Zenon
<1>5. x \in Proxy
  BY <1>1, <1>3, <1>4
<1>6. PICK s, a, c, i, d \in Flag : Refer(p, s, a, c, i, d) /\ Held(prox[p], s, a, c, i, d)
  BY <1>3, HeldAt, Zenon
<1>7. s = TRUE
  BY <1>3, <1>6 DEF Refer, Flag
<1>8. Held(x, TRUE, a, c, i, d)
  BY <1>4, <1>6, <1>7, Zenon
<1>9. /\ a <=> Has(q, Asyc(p))
      /\ c <=> Has(q, Cancel(p))
      /\ i <=> Has(uq, Indication(p))
      /\ d <=> Has(q, Delete(p))
  BY <1>6 DEF Refer, SameEvents
<1>10. x.stopped
  BY <1>3, <1>4
<1>11. LetGo(q, r, LetConnectorGo.px, LetConnectorGo.faults)
  <2>1. PICK y : y = [x EXCEPT !.refs = @ - 1]
    BY Zenon
  <2>2. PICK b \in Flag : b = (x.refs = 1)
    BY ZenonT(30) DEF Flag
  <2>3. y \in Proxy /\ ~d /\ Held(y, FALSE, a, c, i, b)
    <3>1. x.refs \in Nat /\ x.refs # 0 /\ x.refs - 1 \in Nat
      BY <1>5, <1>8 DEF Held, One, Proxy, Flag
    <3>2. /\ y \in Proxy
          /\ y.stopped = x.stopped /\ y.life = x.life /\ y.refs = x.refs - 1 /\ y.actual = x.actual
      BY <1>5, <2>1, <3>1, Zenon DEF Proxy
    <3>3. b <=> x.refs = 1
      BY <2>2, Zenon
    <3>4. /\ x.refs = 1 + One(a) + One(c) + One(i) /\ ~d /\ x.life = "alive"
          /\ (a => x.actual = "none" /\ ~i /\ c) /\ (x.actual = "busy" => ~i /\ c)
          /\ (c /\ ~a => x.actual # "none")
      BY <1>8, <1>10, <3>1 DEF Held, One, Flag
    <3>5. Held(y, FALSE, a, c, i, b)
      BY <1>10, <3>1, <3>2, <3>3, <3>4, SMTT(30) DEF Held, One, Flag
    <3> QED
      BY <3>2, <3>4, <3>5, Zenon
  <2>4. PICK type : type = "Delete"
    BY Zenon
  <2>5. y.stopped /\ y.life = x.life
    BY <1>5, <1>10, <2>1, SMTT(30) DEF Proxy
  <2>6. r = q \o (IF b THEN <<Ev(type, p)>> ELSE <<>>)
    BY <1>3, <1>4, <1>10, <2>2, <2>4, ZenonT(30) DEF LetConnectorGo
  <2>7. ~Has(q, Delete(p)) /\ Ev(type, p) \in NetEvent /\ type # "StartListen"
        /\ type # "StopListen" /\ type # "AsycConnect" /\ type # "CancelConnect"
    BY <1>3, <1>9, <2>3, <2>4 DEF NetEvent
  <2>8. Posted(q, r, b, type, p)
    BY <2>6, <2>7, Post, Zenon
  <2>9. DropRefer(r, p, a, c, i, b)
    BY <1>9, <2>3, <2>4, <2>8 DEF DropRefer, Posted
  <2>11. Dropped(y, p, r)
    BY <2>3, <2>9, DroppedMade, Zenon
  <2>12. PICK px : px = [prox EXCEPT ![p] = y]
    BY Zenon
  <2>13. LetConnectorGo.px = px /\ LetConnectorGo.faults = {}
    <3>1. LetConnectorGo.px = [prox EXCEPT ![p].refs = @ - 1]
      BY <1>3, <1>4, <1>10, ZenonT(30) DEF LetConnectorGo
    <3>2. LetConnectorGo.faults = {}
      BY <1>3, <1>4, <1>10 DEF LetConnectorGo, DestroyFaults
    <3> QED
      BY <1>1, <1>3, <1>4, <2>1, <2>12, <3>1, <3>2, SMTT(30)
  <2>14. y.stopped /\ y.life = prox[p].life /\ type \in {"CancelConnect", "Delete"}
    BY <1>4, <2>4, <2>5, ZenonT(30)
  <2>15. LetGo(q, r, px, {})
    BY <1>3, <2>3, <2>8, <2>11, <2>12, <2>14, LetOneGo, ZenonT(30)
  <2> QED
    BY <2>13, <2>15, Zenon
<1> QED
  BY <1>11

\* Disconnect of the transport.
LEMMA LetTransportGoes ==
  ASSUME PInv, NEW q, NetQueue(q), NEW r, r = q \o LetTransportGo
  PROVE  NetQueue(r) /\ SameEvents(q, r)
<1>1. PICK t, type : t = stream.trp /\ type = "Disconnect"
  BY Zenon
<1>2. PICK b \in Flag : b = (t # 0)
  BY Zenon DEF Flag
<1>3. r = q \o (IF b THEN <<Ev(type, t)>> ELSE <<>>)
  BY <1>1, <1>2, ZenonT(30) DEF LetTransportGo
<1>4. b => Ev(type, t) \in NetEvent
  <2>1. b => t \in Transports
    BY <1>1, <1>2, Zenon DEF PInv, ProxyType, Transports
  <2> QED
    BY <1>1, <2>1 DEF NetEvent
<1>5. /\ type # "AsycConnect" /\ type # "CancelConnect" /\ type # "Delete"
      /\ type # "StartListen" /\ type # "StopListen"
  BY <1>1
<1>6. Posted(q, r, b, type, t)
  BY <1>3, <1>4, <1>5, Post, ZenonT(30)
<1> QED
  BY <1>5, <1>6, Zenon DEF Posted, SameEvents

\* A dropped proxy stays so while the queue tells the same of it.
LEMMA DroppedStill ==
  ASSUME NEW x, NEW o, NEW q, NEW r, Dropped(x, o, q),
         Has(r, Asyc(o)) <=> Has(q, Asyc(o)),
         Has(r, Cancel(o)) <=> Has(q, Cancel(o)),
         Has(r, Delete(o)) <=> Has(q, Delete(o))
  PROVE  Dropped(x, o, r)
<1>1. /\ Has(r, Asyc(o)) = Has(q, Asyc(o))
      /\ Has(r, Cancel(o)) = Has(q, Cancel(o))
      /\ Has(r, Delete(o)) = Has(q, Delete(o))
  BY Zenon DEF Has
<1> QED
  BY <1>1, Zenon DEF Dropped

\* It is held by nothing but the queues after the step.
LEMMA DroppedHeld ==
  ASSUME NEW x, NEW o, Dropped(x, o, nq'), uq' = uq, stream'.con # o
  PROVE  Held(x, stream'.con = o, Has(nq', Asyc(o)), Has(nq', Cancel(o)),
              Has(uq', Indication(o)), Has(nq', Delete(o)))
<1>1. (stream'.con = o) = FALSE
  BY Zenon
<1> QED
  BY <1>1, Zenon DEF Dropped

\* Close leaves the stream with neither connector nor transport.
LEMMA CloseInv == ASSUME PInv, Close PROVE PInv'
<1>1. PICK m : m = nq \o LetTransportGo
  BY Zenon
<1>2. /\ prox' = LetConnectorGo.px /\ nq' = m \o LetConnectorGo.evs
      /\ stream' = [con |-> 0, trp |-> 0]
      /\ faults' = faults \cup LetConnectorGo.faults
      /\ acc' = acc /\ uq' = uq /\ waiting' = waiting
      /\ (stream.con # 0 => prox[stream.con].stopped)
  BY <1>1, Zenon DEF Close, Cancelled
<1>3. NetQueue(nq)
  BY Zenon DEF PInv, ProxyType, QueueInv, NetQueue
<1>4. NetQueue(m) /\ SameEvents(nq, m)
  BY <1>1, <1>3, LetTransportGoes, Zenon
<1>5. LetGo(m, nq', prox', LetConnectorGo.faults)
  <2>1. LetGo(m, nq', LetConnectorGo.px, LetConnectorGo.faults)
    BY <1>2, <1>4, LetConnectorGoes, Zenon
  <2> QED
    BY <1>2, <2>1, Zenon
<1>6. NetQueue(nq') /\ LetConnectorGo.faults = {} /\ prox' \in [Proxies -> Proxy]
  BY <1>5, ZenonT(30) DEF LetGo
<1>7. (Has(nq', Start) <=> Has(nq, Start)) /\ (Has(nq', Stop) <=> Has(nq, Stop))
  BY <1>4, <1>5 DEF LetGo, SameEvents
<1>8. ProxyType'
  BY <1>2, <1>6, Zenon DEF PInv, ProxyType, NetQueue
<1>9. HeldInv'
  <2> SUFFICES ASSUME NEW o \in Proxies
               PROVE  Held(prox'[o], stream'.con = o, Has(nq', Asyc(o)), Has(nq', Cancel(o)),
                           Has(uq', Indication(o)), Has(nq', Delete(o)))
    BY Zenon DEF HeldInv
  <2>1. Dropped(prox'[o], o, nq')
    BY <1>5, Zenon DEF LetGo
  <2>2. stream'.con # o
    BY <1>2, BoundsAssumption DEF Proxies
  <2> QED
    BY <1>2, <2>1, <2>2, DroppedHeld, Zenon
<1>10. QueueInv' /\ NoFault' /\ StreamInv'
  BY <1>2, <1>6, Zenon DEF PInv, QueueInv, NoFault, NetQueue, StreamInv
<1>11. ListenInv'
  BY <1>2, <1>7, KeepListen
<1> QED
  BY <1>8, <1>9, <1>10, <1>11 DEF PInv

\* Connect takes a proxy nobody refers to; the stream and the event refer to it.
LEMMA ConnectInv == ASSUME PInv, Connect PROVE PInv'
<1>1. PICK fresh : fresh = Fresh
  BY Zenon
<1>2. PICK p : p = CHOOSE x \in fresh : TRUE
  BY Zenon
<1>3. PICK m : m = nq \o LetConnectorGo.evs
  BY Zenon
<1>4. PICK k : k = m \o LetTransportGo
  BY Zenon
<1>5. PICK px, y : /\ px = LetConnectorGo.px
                   /\ y = [life |-> "alive", stopped |-> FALSE, refs |-> 2, actual |-> "none"]
  BY ZenonT(30)
<1>6. /\ fresh # {} /\ prox' = [px EXCEPT ![p] = y]
      /\ nq' = k \o <<Ev("AsycConnect", p)>>
      /\ stream' = [con |-> p, trp |-> 0]
      /\ faults' = faults \cup LetConnectorGo.faults
      /\ acc' = acc /\ uq' = uq /\ waiting' = waiting
      /\ (stream.con # 0 => prox[stream.con].stopped)
  BY <1>1, <1>2, <1>3, <1>4, <1>5 DEF Connect, Cancelled
<1>7. p \in fresh
  BY <1>2, <1>6
<1>8. p \in Proxies /\ prox[p].life = "new"
  BY <1>1, <1>7, Zenon DEF Fresh
<1>9. NetQueue(nq) /\ SameEvents(nq, nq)
  BY DEF PInv, ProxyType, QueueInv, NetQueue, SameEvents
<1>10. LetGo(nq, m, px, LetConnectorGo.faults)
  <2>1. LetGo(nq, m, LetConnectorGo.px, LetConnectorGo.faults)
    BY <1>3, <1>6, <1>9, LetConnectorGoes, Zenon
  <2> QED
    BY <1>5, <2>1, Zenon
<1>11. NetQueue(m) /\ LetConnectorGo.faults = {} /\ px \in [Proxies -> Proxy]
  BY <1>10, Zenon DEF LetGo
<1>12. NetQueue(k) /\ SameEvents(m, k)
  BY <1>4, <1>11, LetTransportGoes, Zenon
<1>13. \A o \in Proxies : px[o].stopped /\ Dropped(px[o], o, m) /\ px[o].life = prox[o].life
  BY <1>10, Zenon DEF LetGo
<1>14. PICK s, a, c, i, d \in Flag :
         /\ s = FALSE /\ a = Has(m, Asyc(p)) /\ c = Has(m, Cancel(p))
         /\ i = Has(uq, Indication(p)) /\ d = Has(m, Delete(p))
  <2>1. /\ FALSE \in Flag /\ Has(m, Asyc(p)) \in Flag /\ Has(m, Cancel(p)) \in Flag
        /\ Has(uq, Indication(p)) \in Flag /\ Has(m, Delete(p)) \in Flag
    BY Zenon DEF Flag, Has
  <2> QED
    BY <2>1, Zenon
<1>15. PICK x : x = px[p]
  OBVIOUS
<1>16. x \in Proxy /\ Held(x, s, a, c, i, d) /\ x.life = "new"
  <2>1. x \in Proxy /\ x.life = "new"
    BY <1>8, <1>11, <1>13, <1>15
  <2>2. Dropped(x, p, m)
    BY <1>8, <1>13, <1>15, Zenon
  <2> QED
    BY <1>14, <2>1, <2>2, Zenon DEF Dropped
<1>17. /\ ~a /\ ~c /\ ~i /\ ~d
       /\ y \in Proxy /\ Held(y, TRUE, TRUE, c, i, d)
  <2>1. ~a /\ ~c /\ ~i /\ ~d
    BY <1>16, FreshHeld
  <2>2. y \in Proxy
    BY <1>5, Zenon DEF Proxy
  <2>3. y.life = "alive" /\ y.stopped = FALSE /\ y.refs = 2 /\ y.actual = "none"
    BY <1>5, Zenon
  <2>4. Held(y, TRUE, TRUE, FALSE, FALSE, FALSE)
    BY <2>3 DEF Held, One
  <2>5. c = FALSE /\ i = FALSE /\ d = FALSE
    BY <2>1 DEF Flag
  <2> QED
    BY <2>1, <2>2, <2>4, <2>5, Zenon
<1>18. ~Has(k, Asyc(p)) /\ ~Has(k, Cancel(p)) /\ ~Has(k, Delete(p)) /\ ~Has(uq, Indication(p))
  BY <1>12, <1>14, <1>17, Zenon DEF SameEvents
<1>19. PICK type : type = "AsycConnect"
  BY Zenon
<1>20. PICK b \in Flag : b = TRUE
  BY Zenon DEF Flag
<1>21. Posted(k, nq', b, type, p)
  <2>1. nq' = k \o (IF b THEN <<Ev(type, p)>> ELSE <<>>)
    BY <1>6, <1>19, <1>20
  <2>2. /\ Ev(type, p) \in NetEvent /\ type # "StartListen" /\ type # "StopListen"
        /\ type # "CancelConnect" /\ type # "Delete"
    BY <1>8, <1>19, SMTT(30) DEF NetEvent
  <2> QED
    BY <1>12, <1>18, <2>1, <2>2, Post, ZenonT(30)
<1>22. /\ NetQueue(nq')
       /\ \A o : /\ Has(nq', Asyc(o)) <=> Has(m, Asyc(o)) \/ p = o
                 /\ Has(nq', Cancel(o)) <=> Has(m, Cancel(o))
                 /\ Has(nq', Delete(o)) <=> Has(m, Delete(o))
       /\ Has(nq', Start) <=> Has(nq, Start)
       /\ Has(nq', Stop) <=> Has(nq, Stop)
  BY <1>10, <1>12, <1>19, <1>20, <1>21 DEF Posted, SameEvents, LetGo
<1>23. prox' \in [Proxies -> Proxy] /\ prox'[p] = y /\ \A o \in Proxies \ {p} : prox'[o] = px[o]
  BY <1>6, <1>8, <1>11, <1>17, ZenonT(90)
<1>24. ProxyType'
  BY <1>6, <1>8, <1>22, <1>23 DEF PInv, ProxyType, NetQueue
<1>25. HeldInv'
  <2> SUFFICES ASSUME NEW o \in Proxies
               PROVE  Held(prox'[o], stream'.con = o, Has(nq', Asyc(o)), Has(nq', Cancel(o)),
                           Has(uq', Indication(o)), Has(nq', Delete(o)))
    BY Zenon DEF HeldInv
  <2>1. CASE o = p
    <3>1. Held(prox'[p], b, b, c, i, d)
      BY <1>17, <1>20, <1>23, ZenonT(30)
    <3>2. Refer(p, b, b, c, i, d)'
      BY <1>6, <1>14, <1>20, <1>22 DEF Refer
    <3> QED
      BY <2>1, <3>1, <3>2, HeldMade, Zenon
  <2>2. CASE o # p
    <3>1. prox'[o] = px[o] /\ stream'.con # o
      BY <1>6, <1>23, <2>2, Zenon
    <3>2. Dropped(px[o], o, m)
      BY <1>13, Zenon
    <3>3. /\ Has(nq', Asyc(o)) <=> Has(m, Asyc(o))
          /\ Has(nq', Cancel(o)) <=> Has(m, Cancel(o))
          /\ Has(nq', Delete(o)) <=> Has(m, Delete(o))
      BY <1>22, <2>2, Zenon
    <3>4. Dropped(px[o], o, nq')
      BY <3>2, <3>3, DroppedStill, Zenon
    <3>5. Dropped(prox'[o], o, nq')
      BY <3>1, <3>4, ZenonT(30)
    <3> QED
      BY <1>6, <3>1, <3>5, DroppedHeld, Zenon
  <2> QED
    BY <2>1, <2>2, Zenon
<1>26. QueueInv' /\ NoFault' /\ StreamInv'
  BY <1>6, <1>11, <1>22 DEF PInv, QueueInv, NoFault, NetQueue, StreamInv
<1>27. ListenInv'
  BY <1>6, <1>22, KeepListen, Zenon
<1> QED
  BY <1>24, <1>25, <1>26, <1>27 DEF PInv

-----------------------------------------------------------------------------
(* The theorems *)

\* The invariant holds when nothing has happened yet.
LEMMA InitInv == ASSUME Init PROVE PInv
<1>1. /\ prox = [p \in Proxies |-> [life |-> "new", stopped |-> TRUE, refs |-> 0,
                                    actual |-> "none"]]
      /\ stream = [con |-> 0, trp |-> 0]
      /\ acc = [stopped |-> TRUE, sink |-> FALSE, actual |-> FALSE]
      /\ nq = <<>> /\ uq = <<>> /\ waiting = "no" /\ faults = {}
  BY Zenon DEF Init
<1>2. \A S : ~Has(nq, S) /\ ~Has(uq, S)
  BY <1>1 DEF Has
<1>3. /\ \A S : Once(nq, S) /\ Once(uq, S)
      /\ \A S, U : Before(nq, S, U)
  BY <1>1 DEF Once, Before
<1>4. ProxyType
  BY <1>1 DEF ProxyType, Proxy
<1>5. HeldInv
  <2> SUFFICES ASSUME NEW p \in Proxies
               PROVE  Held(prox[p], stream.con = p, Has(nq, Asyc(p)), Has(nq, Cancel(p)),
                           Has(uq, Indication(p)), Has(nq, Delete(p)))
    BY Zenon DEF HeldInv
  <2>1. p # 0
    BY BoundsAssumption DEF Proxies
  <2>2. /\ (stream.con = p) = FALSE /\ Has(nq, Asyc(p)) = FALSE /\ Has(nq, Cancel(p)) = FALSE
        /\ Has(uq, Indication(p)) = FALSE /\ Has(nq, Delete(p)) = FALSE
    BY <1>1, <1>2, <2>1, Zenon DEF Has
  <2>3. PICK x : x = prox[p]
    BY Zenon
  <2>4. x.life = "new" /\ x.stopped = TRUE /\ x.refs = 0 /\ x.actual = "none"
    BY <1>1, <2>3
  <2>5. Held(x, FALSE, FALSE, FALSE, FALSE, FALSE)
    BY <2>4 DEF Held, One
  <2> QED
    BY <2>2, <2>3, <2>5, Zenon
<1>6. QueueInv
  BY <1>3, Zenon DEF QueueInv, ConnectOrder, ListenOrder
<1>7. StreamInv /\ NoFault
  BY <1>1 DEF StreamInv, NoFault
<1>8. ListenInv
  BY <1>1, <1>2, Zenon DEF ListenInv
<1> QED
  BY <1>4, <1>5, <1>6, <1>7, <1>8 DEF PInv

\* Every step preserves it.
LEMMA StepInv == ASSUME PInv, [Next]_vars PROVE PInv'
<1>1. CASE Connect
  BY <1>1, ConnectInv
<1>2. CASE Close
  BY <1>2, CloseInv, Zenon
<1>3. CASE StartListen
  BY <1>3, StartListenInv
<1>4. CASE StartListenReturns
  BY <1>4, StartListenReturnsInv, Zenon
<1>5. CASE StopListen
  BY <1>5, StopListenInv
<1>6. CASE \E t \in Accepted : DisconnectAccepted(t)
  BY <1>6, DisconnectAcceptedInv, Zenon
<1>7. CASE FireOnConnectIndication
  BY <1>7, FireOnConnectIndicationInv
<1>8. CASE FireOnDisconnect
  BY <1>8, FireOnDisconnectInv, Zenon
<1>9. CASE FireOnAccepted
  BY <1>9, FireOnAcceptedInv
<1>10. CASE FireAsycConnect
  BY <1>10, FireAsycConnectInv, Zenon
<1>11. CASE FireCancelConnect
  BY <1>11, FireCancelConnectInv
<1>12. CASE FireDelete
  BY <1>12, FireDeleteInv, Zenon
<1>13. CASE FireDisconnect
  BY <1>13, FireDisconnectInv
<1>14. CASE FireStartListen
  BY <1>14, FireStartListenInv, Zenon
<1>15. CASE FireStopListen
  BY <1>15, FireStopListenInv
<1>16. CASE \E p \in Proxies : OnConnectIndication(p)
  BY <1>16, OnConnectIndicationInv, Zenon
<1>17. CASE \E t \in Accepted : OnAcceptIndication(t)
  BY <1>17, OnAcceptIndicationInv
<1>18. CASE \E t \in Transports : OnDisconnect(t)
  BY <1>18, OnDisconnectInv
<1>19. CASE \E next \in {"Connect", "Close"} : CancelConnect(next)
  BY <1>19, CancelConnectInv, Zenon
<1>20. CASE UNCHANGED vars
  BY <1>20, ZenonT(90) DEF vars, PInv, ProxyType, HeldInv, QueueInv, StreamInv, ListenInv, NoFault,
                      Has, Once, Before, ConnectOrder, ListenOrder
<1> QED
  BY <1>1, <1>2, <1>3, <1>4, <1>5, <1>6, <1>7, <1>8, <1>9, <1>10, <1>11, <1>12, <1>13, <1>14,
     <1>15, <1>16, <1>17, <1>18, <1>19, <1>20 DEF Next, UserEvents, NetEvents

\* The references of the proxies are those of the stream and of the queued
\* events, in every state, for any number of connects and listens.
THEOREM ReferencesCounted == Spec => []PInv
<1>1. Init => PInv
  BY InitInv, Zenon
<1>2. PInv /\ [Next]_vars => PInv'
  BY StepInv, Zenon
<1> QED
  BY <1>1, <1>2, PTL DEF Spec

\* CFSStreamBase::OnConnectIndication finds its connector and no transport,
\* and the acceptor's indication finds a sink.
THEOREM Expected == Spec => []IndicationsExpected
<1>1. PInv => IndicationsExpected
  BY Zenon DEF PInv, NoFault, IndicationsExpected
<1> QED
  BY <1>1, ReferencesCounted, PTL

\* StartListen finds no acceptor, StopListen and CancelConnect find theirs,
\* and OnReferenceDestory finds a stopped proxy.
THEOREM Asserted == Spec => []AssertionsKept
<1>1. PInv => AssertionsKept
  BY Zenon DEF PInv, NoFault, AssertionsKept
<1> QED
  BY <1>1, ReferencesCounted, PTL

\* Nothing refers to a proxy that is not alive.
LEMMA NotAlive ==
  ASSUME PInv, NEW p \in Proxies, prox[p].life # "alive"
  PROVE  /\ stream.con # p /\ prox[p].actual = "none"
         /\ ~Has(nq, Asyc(p)) /\ ~Has(nq, Cancel(p)) /\ ~Has(nq, Delete(p))
         /\ ~Has(uq, Indication(p))
<1>1. PICK s, a, c, i, d \in Flag : Refer(p, s, a, c, i, d) /\ Held(prox[p], s, a, c, i, d)
  BY HeldAt, Zenon
<1>2. ~s /\ ~a /\ ~c /\ ~i /\ ~d /\ prox[p].actual = "none"
  BY <1>1 DEF Held, One, Flag
<1> QED
  BY <1>1, <1>2, Zenon DEF Refer

\* No queued event, no connector and no stream refers to a proxy that was
\* deleted or not yet created.
THEOREM NeverDangling == Spec => []NoDanglingProxy
<1>1. ASSUME PInv PROVE NoDanglingProxy
  <2> SUFFICES ASSUME NEW p \in Proxies, prox[p].life # "alive"
               PROVE  /\ stream.con # p /\ prox[p].actual = "none"
                      /\ \A i \in 1..Len(uq) :
                           uq[i].type \in {"Connected", "Failed"} => uq[i].id # p
                      /\ \A i \in 1..Len(nq) :
                           nq[i].type \in {"AsycConnect", "CancelConnect", "Delete"}
                             => nq[i].id # p
    BY Zenon DEF NoDanglingProxy
  <2>1. /\ stream.con # p /\ prox[p].actual = "none"
        /\ ~Has(nq, Asyc(p)) /\ ~Has(nq, Cancel(p)) /\ ~Has(nq, Delete(p))
        /\ ~Has(uq, Indication(p))
    BY <1>1, NotAlive
  <2>2. nq \in Seq(NetEvent) /\ uq \in Seq(UserEvent)
    BY <1>1, Zenon DEF PInv, ProxyType
  <2>3. ASSUME NEW i \in 1..Len(uq), uq[i].type \in {"Connected", "Failed"}, uq[i].id = p
        PROVE  FALSE
    <3>1. uq[i] \in UserEvent
      BY <2>2
    <3>2. uq[i] \in Indication(p)
      BY <2>3, <3>1 DEF UserEvent, Indication, Ev
    <3> QED
      BY <2>1, <3>2 DEF Has
  <2>4. ASSUME NEW i \in 1..Len(nq), nq[i].id = p,
               nq[i].type \in {"AsycConnect", "CancelConnect", "Delete"}
        PROVE  FALSE
    <3>1. nq[i] \in NetEvent
      BY <2>2
    <3>2. nq[i] \in Asyc(p) \/ nq[i] \in Cancel(p) \/ nq[i] \in Delete(p)
      BY <2>4, <3>1 DEF NetEvent, Asyc, Cancel, Delete, Ev
    <3> QED
      BY <2>1, <3>2, Zenon DEF Has
  <2> QED
    BY <2>1, <2>3, <2>4
<1>2. PInv => NoDanglingProxy
  BY <1>1
<1> QED
  BY <1>2, ReferencesCounted, PTL

\* What the invariant leaves out: transports, peers that have closed, the
\* number of listens and the call in progress.
RestType ==
  /\ trs \in [Transports -> {"none", "posted", "held", "leaving", "closed"}]
  /\ ended \subseteq Transports
  /\ listens \in 0..MaxListens
  /\ call \in {"none", "Connect", "Close"}

\* They keep their types.
LEMMA RestStep == ASSUME RestType, [Next]_vars PROVE RestType'
<1> USE DEF RestType
<1>1. CASE Connect \/ Close
  BY <1>1, ZenonT(30) DEF Connect, Close
<1>2. CASE StartListen \/ StartListenReturns \/ StopListen
  BY <1>2, BoundsAssumption DEF StartListen, StartListenReturns, StopListen
<1>3. CASE \E t \in Accepted : DisconnectAccepted(t) \/ OnAcceptIndication(t)
  BY <1>3, Zenon DEF DisconnectAccepted, OnAcceptIndication
<1>4. CASE FireOnConnectIndication
  BY <1>4, Zenon DEF FireOnConnectIndication
<1>5. CASE FireOnDisconnect \/ FireOnAccepted
  BY <1>5, Zenon DEF FireOnDisconnect, FireOnAccepted
<1>6. CASE FireAsycConnect \/ FireCancelConnect \/ FireDelete \/ FireDisconnect
  BY <1>6, Zenon DEF FireAsycConnect, FireCancelConnect, FireDelete, FireDisconnect
<1>7. CASE FireStartListen \/ FireStopListen
  BY <1>7, Zenon DEF FireStartListen, FireStopListen
<1>8. CASE \E p \in Proxies : OnConnectIndication(p)
  BY <1>8, Zenon DEF OnConnectIndication
<1>9. CASE \E t \in Transports : OnDisconnect(t)
  BY <1>9, Zenon DEF OnDisconnect
<1>10. CASE UNCHANGED vars
  BY <1>10 DEF vars
<1>11. CASE \E next \in {"Connect", "Close"} : CancelConnect(next)
  BY <1>11, Zenon DEF CancelConnect
<1> QED
  BY <1>1, <1>2, <1>3, <1>4, <1>5, <1>6, <1>7, <1>8, <1>9, <1>10, <1>11, SMTT(30) DEF Next, UserEvents, NetEvents

\* The reference count of a proxy never exceeds four, its four possible
\* holders, and every variable has its type.
THEOREM TypeCorrect == Spec => []TypeOK
<1>1. Init => RestType
  BY BoundsAssumption DEF Init, RestType
<1>2. RestType /\ [Next]_vars => RestType'
  BY RestStep, Zenon
<1>3. ASSUME PInv, RestType PROVE TypeOK
  <2>1. prox \in [Proxies -> [life : {"new", "alive", "dead"}, stopped : BOOLEAN,
                              refs : 0..4, actual : {"none", "busy", "idle"}]]
    <3>1. prox \in [Proxies -> Proxy]
      BY <1>3, Zenon DEF PInv, ProxyType
    <3>2. ASSUME NEW p \in Proxies PROVE prox[p].refs \in 0..4
      <4>1. PICK s, a, c, i, d \in Flag :
              Refer(p, s, a, c, i, d) /\ Held(prox[p], s, a, c, i, d)
        BY <1>3, HeldAt, Zenon
      <4>2. prox[p].refs = One(s) + One(a) + One(c) + One(i)
        BY <4>1, Zenon DEF Held
      <4> QED
        BY <4>2 DEF One, Flag
    <3> QED
      BY <3>1, <3>2 DEF Proxy
  <2>2. nq \in Seq([type : {"AsycConnect", "CancelConnect", "Delete", "Disconnect",
                            "StartListen", "StopListen"}, id : Transports \cup {0}])
    <3>1. nq \in Seq(NetEvent)
      BY <1>3, Zenon DEF PInv, ProxyType
    <3>2. NetEvent \subseteq [type : {"AsycConnect", "CancelConnect", "Delete", "Disconnect",
                                      "StartListen", "StopListen"}, id : Transports \cup {0}]
      BY DEF NetEvent, Ev, Transports
    <3> QED
      BY <3>1, <3>2, WiderQueue, ZenonT(30)
  <2>3. uq \in Seq([type : {"Connected", "Failed", "Accepted", "OnDisconnect"},
                    id : Transports])
    <3>1. uq \in Seq(UserEvent)
      BY <1>3, Zenon DEF PInv, ProxyType
    <3>2. UserEvent \subseteq [type : {"Connected", "Failed", "Accepted", "OnDisconnect"},
                               id : Transports]
      BY DEF UserEvent, Ev, Transports
    <3> QED
      BY <3>1, <3>2, WiderQueue, ZenonT(30)
  <2> QED
    BY <1>3, <2>1, <2>2, <2>3 DEF PInv, ProxyType, ListenInv, NoFault, RestType, TypeOK
<1>4. PInv /\ RestType => TypeOK
  BY <1>3, Zenon
<1> QED
  BY <1>1, <1>2, <1>4, ReferencesCounted, PTL DEF Spec
=============================================================================
