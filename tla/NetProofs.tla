----------------------------- MODULE NetProofs -----------------------------
(***************************************************************************)
(* Proofs about NetThread, for any number of connectors, acceptors and     *)
(* descriptors: however closing, reuse of descriptors within a batch,      *)
(* timers and requests interleave, a descriptor has one owner, a handler   *)
(* is alive and the kqueue watches and keeps what it waits for.            *)
(***************************************************************************)
EXTENDS NetThread, TLAPS

---------------------------------------------------------------------------
(* The inductive invariant *)

\* The state of a connector.
ConType == [st : {"new", "busy", "done"}, fd : Fds \cup {0},
            timer : {"none", "timeout", "error"}, told : 0..1]

\* The part of TypeOK that the owners and descriptors make up.
Core ==
  /\ net \in NetType /\ con \in [Connectors -> ConType]
  /\ acc \in [Acceptors -> Fds \cup {0}]
  /\ trp \in [Fds -> {"none", "held", "open", "cut"}]

\* A connector with a descriptor or a timer is busy, the reactor knows it as
\* the handler of its descriptor, and nothing is indicated before it is done.
ConOK(c) ==
  /\ con[c].fd # 0 => con[c].st = "busy" /\ net.repo[con[c].fd].eh = c
  /\ con[c].timer # "none" => con[c].st = "busy"
  /\ con[c].st # "done" => con[c].told = 0

\* The reactor knows an acceptor as the handler of its descriptor.
AccOK(a) == acc[a] # 0 => net.repo[acc[a]].eh = a

\* A descriptor is closed, or it is that of a transport that waits to be
\* deleted, of an open transport, of a connector or of an acceptor.
FreeSlot(f) == /\ net.repo[f] = Cleared /\ trp[f] = "none"
               /\ net.sk[f].st = "closed"
CutSlot(f) == /\ net.repo[f] = Cleared /\ trp[f] = "cut"
              /\ net.sk[f].st # "closed"
OpenSlot(f) == /\ net.repo[f] = [eh |-> f, mask |-> {"READ", "WRITE"}]
               /\ trp[f] = "open" /\ net.sk[f].st # "closed"
ConnectSlot(f) ==
  \E c \in Connectors : /\ net.repo[f] = [eh |-> c, mask |-> {"CONNECT"}]
                        /\ con[c].fd = f /\ trp[f] = "held"
                        /\ net.sk[f].st # "closed"
ListenSlot(f) ==
  \E a \in Acceptors : /\ net.repo[f] = [eh |-> a, mask |-> {"ACCEPT"}]
                       /\ acc[a] = f /\ trp[f] = "none"
                       /\ net.sk[f].st = "listening"
SlotOK(f) ==
  FreeSlot(f) \/ CutSlot(f) \/ OpenSlot(f) \/ ConnectSlot(f) \/ ListenSlot(f)

\* The kqueue watches what the mask says and fires for nothing else.
WatchOK(f) ==
  net.want[f] = Want(net.repo[f].mask) /\ net.act[f] \subseteq net.want[f]

\* The event is in the kqueue or in the batch.
Pending(f, x) == x \in net.act[f] \/ <<f, x>> \in batch

\* The event a connector or a transport waits for is pending.
EdgeOK(f) ==
  /\ net.repo[f].eh \in Connectors /\ "OUT" \in Ready(net.sk[f]) => Pending(f, "OUT")
  /\ net.repo[f].eh \in Fds /\ "IN" \in Ready(net.sk[f]) => Pending(f, "IN")

\* The invariant of descriptors, their owners and their handlers.
Owned ==
  /\ \A c \in Connectors : ConOK(c)
  /\ \A a \in Acceptors : AccOK(a)
  /\ \A f \in Fds : SlotOK(f) /\ WatchOK(f) /\ EdgeOK(f)

\* The rest of TypeOK, the fault that cannot happen left out, and the batch
\* done with when the loop goes on to its queue and its timers.
Rest ==
  /\ notes \in Seq(Fds)
  /\ phase \in {"timers", "batch", "queue", "midqueue"}
  /\ batch \subseteq (Fds \X Filters) \cup {Pipe}
  /\ listens \in 0..MaxListens
  /\ faults \subseteq {"FalseSuccess"}
  /\ phase \in {"timers", "queue"} => batch = {}

\* The inductive invariant.
NInv ==
  /\ TypeOK
  /\ Owned
  /\ Rest

---------------------------------------------------------------------------
(* The operators on the network's state, each as an update of one          *)
(* descriptor.                                                             *)
\* An entry of the repository and a socket.
Entry == [eh : Handlers \cup {None}, mask : SUBSET Masks]
Sock == [st : States, rx : 0..MaxUnread]

\* The network state n with everything about descriptor f replaced.
At(n, f, r, w, x, s) ==
  [repo |-> [n.repo EXCEPT ![f] = r], want |-> [n.want EXCEPT ![f] = w],
   act |-> [n.act EXCEPT ![f] = x], sk |-> [n.sk EXCEPT ![f] = s]]

\* A function changed at a place where it has that value already is the same.
LEMMA SameAt ==
  ASSUME NEW S, NEW T, NEW g \in [S -> T], NEW y \in S
  PROVE  [g EXCEPT ![y] = g[y]] = g
BY Zenon

\* Of two changes at one place the second counts.
LEMMA TwiceAt ==
  ASSUME NEW S, NEW T, NEW g \in [S -> T], NEW y \in S, NEW u, NEW v
  PROVE  [[g EXCEPT ![y] = u] EXCEPT ![y] = v] = [g EXCEPT ![y] = v]
BY Zenon

\* What a change at one place leaves elsewhere.
LEMMA ChangedAt ==
  ASSUME NEW S, NEW T, NEW g \in [S -> T], NEW y \in S, NEW u
  PROVE  /\ [g EXCEPT ![y] = u][y] = u
         /\ \A z \in S : z # y => [g EXCEPT ![y] = u][z] = g[z]
         /\ u \in T => [g EXCEPT ![y] = u] \in [S -> T]
BY Zenon

\* The parts of the network state and their types.
LEMMA Fields ==
  ASSUME NEW n \in NetType
  PROVE  /\ n.repo \in [Fds -> Entry] /\ n.want \in [Fds -> SUBSET Filters]
         /\ n.act \in [Fds -> SUBSET Filters] /\ n.sk \in [Fds -> Sock]
         /\ n = [repo |-> n.repo, want |-> n.want, act |-> n.act, sk |-> n.sk]
BY Zenon DEF NetType, Entry, Sock

\* Parts of the right types make a network state.
LEMMA Made ==
  ASSUME NEW a \in [Fds -> Entry], NEW b \in [Fds -> SUBSET Filters],
         NEW c \in [Fds -> SUBSET Filters], NEW d \in [Fds -> Sock]
  PROVE  [repo |-> a, want |-> b, act |-> c, sk |-> d] \in NetType
BY Zenon DEF NetType, Entry, Sock

\* What an update of descriptor f makes of its entries.
LEMMA AtHere ==
  ASSUME NEW n \in NetType, NEW f \in Fds, NEW r, NEW w, NEW x, NEW s,
         NEW m, m = At(n, f, r, w, x, s)
  PROVE  m.repo[f] = r /\ m.want[f] = w /\ m.act[f] = x /\ m.sk[f] = s
<1>1. /\ m.repo = [n.repo EXCEPT ![f] = r] /\ m.want = [n.want EXCEPT ![f] = w]
      /\ m.act = [n.act EXCEPT ![f] = x] /\ m.sk = [n.sk EXCEPT ![f] = s]
  BY DEF At
<1> QED BY <1>1, Fields, ChangedAt

\* The entry among them.
LEMMA EntryHere ==
  ASSUME NEW n \in NetType, NEW f \in Fds, NEW r, NEW w, NEW x, NEW s
  PROVE  At(n, f, r, w, x, s).repo[f] = r
BY AtHere

\* What an update of descriptor f leaves of the others.
LEMMA AtOther ==
  ASSUME NEW n \in NetType, NEW f \in Fds, NEW r, NEW w, NEW x, NEW s,
         NEW m, m = At(n, f, r, w, x, s), NEW g \in Fds, g # f
  PROVE  /\ m.repo[g] = n.repo[g] /\ m.want[g] = n.want[g]
         /\ m.act[g] = n.act[g] /\ m.sk[g] = n.sk[g]
<1>1. /\ m.repo = [n.repo EXCEPT ![f] = r] /\ m.want = [n.want EXCEPT ![f] = w]
      /\ m.act = [n.act EXCEPT ![f] = x] /\ m.sk = [n.sk EXCEPT ![f] = s]
  BY DEF At
<1> QED BY <1>1, Fields, ChangedAt

\* An update with well-typed parts keeps the type.
LEMMA AtType ==
  ASSUME NEW n \in NetType, NEW f \in Fds, NEW r \in Entry,
         NEW w \in SUBSET Filters, NEW x \in SUBSET Filters, NEW s \in Sock
  PROVE  At(n, f, r, w, x, s) \in NetType
BY Fields, ChangedAt, Made DEF At

\* Writing what is there changes nothing.
LEMMA AtSame ==
  ASSUME NEW n \in NetType, NEW f \in Fds
  PROVE  At(n, f, n.repo[f], n.want[f], n.act[f], n.sk[f]) = n
BY Fields, SameAt DEF At

\* Of two updates of one descriptor the second counts.
LEMMA AtTwice ==
  ASSUME NEW n \in NetType, NEW f \in Fds, NEW r, NEW w, NEW x, NEW s,
         NEW r2, NEW w2, NEW x2, NEW s2
  PROVE  At(At(n, f, r, w, x, s), f, r2, w2, x2, s2) = At(n, f, r2, w2, x2, s2)
<1> DEFINE m == At(n, f, r, w, x, s)
<1>1. /\ m.repo = [n.repo EXCEPT ![f] = r] /\ m.want = [n.want EXCEPT ![f] = w]
      /\ m.act = [n.act EXCEPT ![f] = x] /\ m.sk = [n.sk EXCEPT ![f] = s]
  BY Zenon DEF At
<1>2. /\ [m.repo EXCEPT ![f] = r2] = [n.repo EXCEPT ![f] = r2]
      /\ [m.want EXCEPT ![f] = w2] = [n.want EXCEPT ![f] = w2]
      /\ [m.act EXCEPT ![f] = x2] = [n.act EXCEPT ![f] = x2]
      /\ [m.sk EXCEPT ![f] = s2] = [n.sk EXCEPT ![f] = s2]
  <2> HIDE DEF m
  <2> QED BY <1>1, Fields, TwiceAt, Zenon
<1> HIDE DEF m
<1> QED BY <1>2, Zenon DEF At

\* The fields of the network state, set one at a time.
SetRepo(n, p) == [n EXCEPT !.repo = p]
SetWant(n, p) == [n EXCEPT !.want = p]
SetAct(n, p) == [n EXCEPT !.act = p]
SetSk(n, p) == [n EXCEPT !.sk = p]
Net(a, b, c, d) == [repo |-> a, want |-> b, act |-> c, sk |-> d]

\* A field updated alone.
LEMMA PutRepo ==
  ASSUME NEW a, NEW b, NEW c, NEW d, NEW p
  PROVE  SetRepo(Net(a, b, c, d), p) = Net(p, b, c, d)
BY SMTT(30) DEF SetRepo, Net

\* The same of the interest.
LEMMA PutWant ==
  ASSUME NEW a, NEW b, NEW c, NEW d, NEW p
  PROVE  SetWant(Net(a, b, c, d), p) = Net(a, p, c, d)
BY SMTT(30) DEF SetWant, Net

\* The same of the filters that fired.
LEMMA PutAct ==
  ASSUME NEW a, NEW b, NEW c, NEW d, NEW p
  PROVE  SetAct(Net(a, b, c, d), p) = Net(a, b, p, d)
BY SMTT(30) DEF SetAct, Net

\* The same of the sockets.
LEMMA PutSk ==
  ASSUME NEW a, NEW b, NEW c, NEW d, NEW p
  PROVE  SetSk(Net(a, b, c, d), p) = Net(a, b, c, p)
BY SMTT(30) DEF SetSk, Net

\* The updates of the operators of the model.
RebindAt(n, f, r, w, x) == [n EXCEPT !.repo[f] = r, !.want[f] = w, !.act[f] = x]
BindAt(n, f, r, w, x) ==
  [[n EXCEPT !.repo[f] = r] EXCEPT !.want[f] = w, !.act[f] = x]
ResetAt(n, f, s, w, x) == [n EXCEPT !.sk[f] = s, !.want[f] = w, !.act[f] = x]
ChangeAt(n, f, s, x) == [n EXCEPT !.sk[f] = s, !.act[f] = x]
SockAt(n, f, s) == [n EXCEPT !.sk = [n.sk EXCEPT ![f] = s]]

\* The descriptor's entries in several fields.
LEMMA PutAt ==
  ASSUME NEW n \in NetType, NEW f \in Fds, NEW r, NEW w, NEW x, NEW s
  PROVE  /\ RebindAt(n, f, r, w, x) = At(n, f, r, w, x, n.sk[f])
         /\ BindAt(n, f, r, w, x) = At(n, f, r, w, x, n.sk[f])
         /\ ResetAt(n, f, s, w, x) = At(n, f, n.repo[f], w, x, s)
         /\ ChangeAt(n, f, s, x) = At(n, f, n.repo[f], n.want[f], x, s)
         /\ SockAt(n, f, s) = At(n, f, n.repo[f], n.want[f], n.act[f], s)
<1>1. PICK a, b, c, d : /\ a = [n.repo EXCEPT ![f] = r]
                        /\ b = [n.want EXCEPT ![f] = w]
                        /\ c = [n.act EXCEPT ![f] = x]
                        /\ d = [n.sk EXCEPT ![f] = s]
  BY Zenon
<1>2. n = Net(n.repo, n.want, n.act, n.sk)
  BY Fields, Zenon DEF Net
<1>3. /\ RebindAt(n, f, r, w, x) = SetAct(SetWant(SetRepo(n, a), b), c)
      /\ BindAt(n, f, r, w, x) = SetAct(SetWant(SetRepo(n, a), b), c)
      /\ ResetAt(n, f, s, w, x) = SetAct(SetWant(SetSk(n, d), b), c)
      /\ ChangeAt(n, f, s, x) = SetAct(SetSk(n, d), c)
      /\ SockAt(n, f, s) = SetSk(n, d)
  BY <1>1, Zenon DEF RebindAt, BindAt, ResetAt, ChangeAt, SockAt, SetRepo, SetWant,
                     SetAct, SetSk
<1>4. /\ SetRepo(n, a) = Net(a, n.want, n.act, n.sk)
      /\ SetSk(n, d) = Net(n.repo, n.want, n.act, d)
  BY <1>2, PutRepo, PutSk
<1>5. /\ SetAct(SetWant(SetRepo(n, a), b), c) = Net(a, b, c, n.sk)
      /\ SetAct(SetWant(SetSk(n, d), b), c) = Net(n.repo, b, c, d)
      /\ SetAct(SetSk(n, d), c) = Net(n.repo, n.want, c, d)
  BY <1>4, PutWant, PutAct
<1>6. /\ [n.repo EXCEPT ![f] = n.repo[f]] = n.repo
      /\ [n.want EXCEPT ![f] = n.want[f]] = n.want
      /\ [n.act EXCEPT ![f] = n.act[f]] = n.act
      /\ [n.sk EXCEPT ![f] = n.sk[f]] = n.sk
  BY Fields, SameAt, Zenon
<1>7. /\ At(n, f, r, w, x, n.sk[f]) = Net(a, b, c, n.sk)
      /\ At(n, f, n.repo[f], w, x, s) = Net(n.repo, b, c, d)
      /\ At(n, f, n.repo[f], n.want[f], x, s) = Net(n.repo, n.want, c, d)
      /\ At(n, f, n.repo[f], n.want[f], n.act[f], s) = Net(n.repo, n.want, n.act, d)
  BY <1>1, <1>6, Zenon DEF At, Net
<1> QED BY <1>3, <1>4, <1>5, <1>7, Zenon

\* RemoveHandler with all of the mask clears the entry and the kqueue.
LEMMA RemoveAll ==
  ASSUME NEW n \in NetType, NEW f \in Fds, NEW mask,
         n.repo[f].mask # {}, n.repo[f].mask \subseteq mask
  PROVE  RemoveHandler(n, f, mask) = At(n, f, Cleared, {}, {}, n.sk[f])
<1>1. n.repo[f].mask \ mask = {}
  BY Zenon
<1>2. RemoveHandler(n, f, mask) = RebindAt(n, f, Cleared, {}, {})
  BY <1>1, Zenon DEF RemoveHandler, RebindAt
<1> QED BY <1>2, PutAt

\* RemoveHandler does nothing when no handler is registered.
LEMMA RemoveNone ==
  ASSUME NEW n, NEW f, NEW mask, n.repo[f].mask = {}
  PROVE  RemoveHandler(n, f, mask) = n
BY Zenon DEF RemoveHandler

\* RegisterHandler on a descriptor without handler adds it to the kqueue.
LEMMA RegisterFree ==
  ASSUME NEW n \in NetType, NEW f \in Fds, NEW h, NEW mask,
         n.repo[f].eh = None
  PROVE  RegisterHandler(n, f, h, mask)
           = At(n, f, [eh |-> h, mask |-> mask], Want(mask),
                Ready(n.sk[f]) \cap Want(mask), n.sk[f])
<1>1. RegisterHandler(n, f, h, mask)
        = BindAt(n, f, [eh |-> h, mask |-> mask], Want(mask),
                 Ready(n.sk[f]) \cap Want(mask))
  BY Zenon DEF RegisterHandler, BindAt
<1> QED BY <1>1, PutAt

\* Closing a socket leaves the entry of the repository alone.
LEMMA CloseIs ==
  ASSUME NEW n \in NetType, NEW f \in Fds
  PROVE  CloseFd(n, f) = At(n, f, n.repo[f], {}, {}, Closed)
<1>1. CloseFd(n, f) = ResetAt(n, f, Closed, {}, {})
  BY Zenon DEF CloseFd, ResetAt
<1> QED BY <1>1, PutAt

\* What happens to a socket changes it and the filters that fired.
LEMMA ChangeIs ==
  ASSUME NEW n \in NetType, NEW f \in Fds, NEW s
  PROVE  Change(n, f, s) = At(n, f, n.repo[f], n.want[f],
                              n.act[f] \cup (Ready(s) \cap n.want[f]), s)
<1>1. Change(n, f, s)
        = ChangeAt(n, f, s, n.act[f] \cup (Ready(s) \cap n.want[f]))
  BY Zenon DEF Change, ChangeAt
<1> QED BY <1>1, PutAt

\* The socket of f with a new state, or with another number unread.
StAt(n, f, st) == [n EXCEPT !.sk[f].st = st]
RxAt(n, f, rx) == [n EXCEPT !.sk[f].rx = rx]

\* A socket of which one field is set.
LEMMA SocketIn ==
  ASSUME NEW n \in NetType, NEW f \in Fds, NEW k
  PROVE  /\ StAt(n, f, k) = At(n, f, n.repo[f], n.want[f], n.act[f],
                               [st |-> k, rx |-> n.sk[f].rx])
         /\ RxAt(n, f, k) = At(n, f, n.repo[f], n.want[f], n.act[f],
                               [st |-> n.sk[f].st, rx |-> k])
<1>1. n.sk[f] \in Sock
  BY Fields, Zenon
<1>2. /\ [n.sk[f] EXCEPT !.st = k] = [st |-> k, rx |-> n.sk[f].rx]
      /\ [n.sk[f] EXCEPT !.rx = k] = [st |-> n.sk[f].st, rx |-> k]
  BY <1>1 DEF Sock
<1>3. /\ StAt(n, f, k) = SockAt(n, f, [n.sk[f] EXCEPT !.st = k])
      /\ RxAt(n, f, k) = SockAt(n, f, [n.sk[f] EXCEPT !.rx = k])
  BY Zenon DEF SockAt, StAt, RxAt
<1> QED BY <1>2, <1>3, PutAt

---------------------------------------------------------------------------
(* One descriptor changes.                                                 *)

\* No event of another descriptor leaves the batch.
BatchKept(f) ==
  \A g \in Fds, x \in Filters : g # f /\ <<g, x>> \in batch => <<g, x>> \in batch'

\* Whatever happens to descriptor f, another one is as it was.
LEMMA OtherSlot ==
  ASSUME TypeOK, NEW f \in Fds, NEW r, NEW w, NEW x, NEW s,
         net' = At(net, f, r, w, x, s), NEW g \in Fds, g # f,
         trp'[g] = trp[g], SlotOK(g), WatchOK(g), EdgeOK(g),
         BatchKept(f),
         \A c \in Connectors : con'[c].fd = con[c].fd \/ con[c].fd # g,
         \A a \in Acceptors : acc'[a] = acc[a] \/ acc[a] # g
  PROVE  SlotOK(g)' /\ WatchOK(g)' /\ EdgeOK(g)'
<1>0. net \in NetType
  BY Zenon DEF TypeOK
<1>1. /\ net'.repo[g] = net.repo[g] /\ net'.want[g] = net.want[g]
      /\ net'.act[g] = net.act[g] /\ net'.sk[g] = net.sk[g]
  BY <1>0, AtOther
<1>2. SlotOK(g)'
  BY <1>1, Zenon DEF SlotOK, FreeSlot, CutSlot, OpenSlot, ConnectSlot, ListenSlot
<1>3. WatchOK(g)'
  BY <1>1, Zenon DEF WatchOK
<1>4. EdgeOK(g)'
  <2>1. "IN" \in Filters /\ "OUT" \in Filters
    BY Zenon DEF Filters
  <2> QED BY <1>1, <2>1, Zenon DEF EdgeOK, Pending, BatchKept
<1> QED BY <1>2, <1>3, <1>4, Zenon

\* The connectors and acceptors that change are those of descriptor f.
OwnersFollow(f) ==
  /\ \A c \in Connectors : \/ con'[c] = con[c] /\ con[c].fd # f
                           \/ con[c].fd \in {0, f} /\ ConOK(c)'
  /\ \A a \in Acceptors : \/ acc'[a] = acc[a] /\ acc[a] # f
                          \/ acc[a] \in {0, f} /\ AccOK(a)'

\* Descriptor f changes, and with it the connectors and acceptors that have
\* something to do with it.
LEMMA OneSlot ==
  ASSUME TypeOK, Owned, NEW f \in Fds, NEW r, NEW w, NEW x, NEW s,
         net' = At(net, f, r, w, x, s),
         \A g \in Fds : g # f => trp'[g] = trp[g],
         BatchKept(f),
         OwnersFollow(f),
         SlotOK(f)', WatchOK(f)', EdgeOK(f)'
  PROVE  Owned'
<1>0. net \in NetType
  BY Zenon DEF TypeOK
<1>1. \A g \in Fds : g # f => net'.repo[g] = net.repo[g]
  BY <1>0, AtOther
<1>2. \A g \in Fds : g # 0
  BY FdsAssumption, Zenon
<1>3. /\ \A c \in Connectors : con[c].fd = 0 \/ con[c].fd \in Fds
      /\ \A a \in Acceptors : acc[a] = 0 \/ acc[a] \in Fds
  BY Zenon DEF TypeOK
<1>4. ASSUME NEW c \in Connectors PROVE ConOK(c)'
  <2>1. CASE con'[c] = con[c] /\ con[c].fd # f
    <3>1. ConOK(c)
      BY Zenon DEF Owned
    <3>2. con[c].fd # 0 => net'.repo[con[c].fd] = net.repo[con[c].fd]
      BY <1>1, <1>3, <2>1, Zenon
    <3> QED BY <2>1, <3>1, <3>2, Zenon DEF ConOK
  <2> QED BY <2>1, Zenon DEF OwnersFollow
<1>5. ASSUME NEW a \in Acceptors PROVE AccOK(a)'
  <2>1. CASE acc'[a] = acc[a] /\ acc[a] # f
    BY <1>1, <1>3, <2>1, Zenon DEF Owned, AccOK
  <2> QED BY <2>1, Zenon DEF OwnersFollow
<1>6. ASSUME NEW g \in Fds PROVE SlotOK(g)' /\ WatchOK(g)' /\ EdgeOK(g)'
  <2>1. CASE g = f
    BY <2>1, Zenon
  <2>2. CASE g # f
    <3>1. \A c \in Connectors : con'[c].fd = con[c].fd \/ con[c].fd # g
      BY <1>2, <2>2, Zenon DEF OwnersFollow
    <3>2. \A a \in Acceptors : acc'[a] = acc[a] \/ acc[a] # g
      BY <1>2, <2>2, Zenon DEF OwnersFollow
    <3>3. /\ trp'[g] = trp[g] /\ SlotOK(g) /\ WatchOK(g) /\ EdgeOK(g)
      BY <2>2, Zenon DEF Owned
    <3> QED BY <2>2, <3>1, <3>2, <3>3, OtherSlot, Zenon
  <2> QED BY <2>1, <2>2, Zenon
<1> QED BY <1>4, <1>5, <1>6, Zenon DEF Owned

\* Descriptor f changes and keeps its owner.
LEMMA SameOwner ==
  ASSUME TypeOK, Owned, NEW f \in Fds, NEW w, NEW x, NEW s,
         net' = At(net, f, net.repo[f], w, x, s),
         con' = con, acc' = acc, trp' = trp,
         BatchKept(f),
         SlotOK(f)', WatchOK(f)', EdgeOK(f)'
  PROVE  Owned'
<1>0. net \in NetType
  BY Zenon DEF TypeOK
<1>1. net'.repo[f] = net.repo[f]
  BY <1>0, AtHere
<1>2. \A c \in Connectors : \/ con'[c] = con[c] /\ con[c].fd # f
                            \/ con[c].fd \in {0, f} /\ ConOK(c)'
  <2> SUFFICES ASSUME NEW c \in Connectors, con[c].fd = f PROVE ConOK(c)'
    BY Zenon DEF ConOK
  <2> QED BY <1>1, Zenon DEF Owned, ConOK
<1>3. \A a \in Acceptors : \/ acc'[a] = acc[a] /\ acc[a] # f
                           \/ acc[a] \in {0, f} /\ AccOK(a)'
  <2> SUFFICES ASSUME NEW a \in Acceptors, acc[a] = f PROVE AccOK(a)'
    BY Zenon DEF AccOK
  <2> QED BY <1>1, Zenon DEF Owned, AccOK
<1>4. \A g \in Fds : g # f => trp'[g] = trp[g]
  BY Zenon
<1> QED BY <1>2, <1>3, <1>4, OneSlot, Zenon DEF OwnersFollow

\* Only connector d changes, which has no descriptor before or after.
LEMMA ConnectorOnly ==
  ASSUME Owned, NEW d \in Connectors, net' = net, acc' = acc, trp' = trp,
         batch' = batch, con[d].fd = 0, ConOK(d)',
         \A c \in Connectors : c # d => con'[c] = con[c]
  PROVE  Owned'
<1>1. \A g \in Fds : g # 0
  BY FdsAssumption, Zenon
<1>2. ASSUME NEW c \in Connectors PROVE ConOK(c)'
  <2>1. CASE c # d
    <3>1. con'[c] = con[c] /\ ConOK(c)
      BY <2>1, Zenon DEF Owned
    <3> QED BY <3>1, Zenon DEF ConOK
  <2> QED BY <2>1, Zenon
<1>3. ASSUME NEW a \in Acceptors PROVE AccOK(a)'
  BY Zenon DEF Owned, AccOK
<1>4. ASSUME NEW f \in Fds PROVE SlotOK(f)' /\ WatchOK(f)' /\ EdgeOK(f)'
  <2>1. SlotOK(f) /\ WatchOK(f) /\ EdgeOK(f)
    BY Zenon DEF Owned
  <2>2. \A c \in Connectors : con'[c] = con[c] \/ con[c].fd # f
    BY <1>1, Zenon
  <2>3. SlotOK(f)'
    BY <2>1, <2>2, Zenon DEF SlotOK, FreeSlot, CutSlot, OpenSlot, ConnectSlot,
                            ListenSlot
  <2> QED BY <2>1, <2>3, Zenon DEF WatchOK, EdgeOK, Pending
<1> QED BY <1>2, <1>3, <1>4, Zenon DEF Owned

---------------------------------------------------------------------------
(* What a descriptor's owner is known by.                                  *)

\* The kinds of handlers are disjoint.
LEMMA Kinds ==
  /\ \A c \in Connectors : c \notin Acceptors /\ c \notin Fds /\ c # None
  /\ \A a \in Acceptors : a \notin Connectors /\ a \notin Fds /\ a # None
  /\ \A f \in Fds : f \notin Connectors /\ f \notin Acceptors /\ f # None /\ f # 0
  /\ None \notin Connectors /\ None \notin Acceptors /\ None \notin Fds
BY HandlersAssumption, FdsAssumption, Zenon

\* The filters of the masks that are registered.
LEMMA WantIs ==
  /\ Want({"CONNECT"}) = {"OUT"} /\ Want({"ACCEPT"}) = {"IN"}
  /\ Want({"READ", "WRITE"}) = {"IN", "OUT"} /\ Want({}) = {}
BY Zenon DEF Want

\* Interest is a set of filters.
LEMMA WantType ==
  ASSUME NEW m PROVE Want(m) \in SUBSET Filters
BY Zenon DEF Want, Filters

\* A socket is ready for a set of filters.
LEMMA ReadyType ==
  ASSUME NEW s PROVE Ready(s) \in SUBSET Filters
BY Zenon DEF Ready, Filters

\* The entries that are written to the repository have its type.
LEMMA EntryType ==
  /\ Cleared \in Entry
  /\ \A c \in Connectors : [eh |-> c, mask |-> {"CONNECT"}] \in Entry
  /\ \A a \in Acceptors : [eh |-> a, mask |-> {"ACCEPT"}] \in Entry
  /\ \A f \in Fds : [eh |-> f, mask |-> {"READ", "WRITE"}] \in Entry
BY Zenon DEF Entry, Cleared, Handlers, Masks

\* What each kind of slot is known by.
ConnectorHas(f) ==
  /\ net.repo[f].eh \in Connectors
  /\ net.repo[f] = [eh |-> net.repo[f].eh, mask |-> {"CONNECT"}]
  /\ con[net.repo[f].eh].fd = f /\ trp[f] = "held" /\ net.sk[f].st # "closed"

\* The same of an acceptor.
AcceptorHas(f) ==
  /\ net.repo[f].eh \in Acceptors
  /\ net.repo[f] = [eh |-> net.repo[f].eh, mask |-> {"ACCEPT"}]
  /\ acc[net.repo[f].eh] = f /\ trp[f] = "none" /\ net.sk[f].st = "listening"

\* The handler and mask of each kind of slot.
LEMMA SlotKinds ==
  ASSUME NEW f \in Fds
  PROVE  /\ FreeSlot(f) => net.repo[f].eh = None /\ net.repo[f].mask = {}
         /\ CutSlot(f) => net.repo[f].eh = None /\ net.repo[f].mask = {}
         /\ OpenSlot(f) => net.repo[f].eh = f /\ net.repo[f].mask = {"READ", "WRITE"}
         /\ ConnectSlot(f) => ConnectorHas(f) /\ net.repo[f].mask = {"CONNECT"}
         /\ ListenSlot(f) => AcceptorHas(f) /\ net.repo[f].mask = {"ACCEPT"}
<1>1. FreeSlot(f) => net.repo[f].eh = None /\ net.repo[f].mask = {}
  BY DEF FreeSlot, Cleared
<1>2. CutSlot(f) => net.repo[f].eh = None /\ net.repo[f].mask = {}
  BY DEF CutSlot, Cleared
<1>3. OpenSlot(f) => net.repo[f].eh = f /\ net.repo[f].mask = {"READ", "WRITE"}
  BY DEF OpenSlot
<1>4. ASSUME ConnectSlot(f)
      PROVE  ConnectorHas(f) /\ net.repo[f].mask = {"CONNECT"}
  <2>1. PICK c \in Connectors : /\ net.repo[f] = [eh |-> c, mask |-> {"CONNECT"}]
                                /\ con[c].fd = f /\ trp[f] = "held"
                                /\ net.sk[f].st # "closed"
    BY <1>4, Zenon DEF ConnectSlot
  <2>2. net.repo[f].eh = c /\ net.repo[f].mask = {"CONNECT"}
    BY <2>1
  <2> QED BY <2>1, <2>2, Zenon DEF ConnectorHas
<1>5. ASSUME ListenSlot(f)
      PROVE  AcceptorHas(f) /\ net.repo[f].mask = {"ACCEPT"}
  <2>1. PICK a \in Acceptors : /\ net.repo[f] = [eh |-> a, mask |-> {"ACCEPT"}]
                               /\ acc[a] = f /\ trp[f] = "none"
                               /\ net.sk[f].st = "listening"
    BY <1>5, Zenon DEF ListenSlot
  <2>2. net.repo[f].eh = a /\ net.repo[f].mask = {"ACCEPT"}
    BY <2>1
  <2> QED BY <2>1, <2>2, Zenon DEF AcceptorHas
<1> QED BY <1>1, <1>2, <1>3, <1>4, <1>5, Zenon

\* The handler, its mask, the state of the socket and that of the transport:
\* each tells who has the descriptor.
LEMMA SlotTells ==
  ASSUME NEW f \in Fds, SlotOK(f)
  PROVE  /\ net.repo[f].eh \in Connectors => ConnectorHas(f)
         /\ net.repo[f].eh \in Acceptors => AcceptorHas(f)
         /\ net.repo[f].eh \in Fds => OpenSlot(f)
         /\ net.repo[f].eh = None => FreeSlot(f) \/ CutSlot(f)
         /\ \/ net.repo[f].eh = None \/ net.repo[f].eh \in Connectors
            \/ net.repo[f].eh \in Acceptors \/ net.repo[f].eh \in Fds
         /\ "CONNECT" \in net.repo[f].mask => net.repo[f].eh \in Connectors
         /\ "ACCEPT" \in net.repo[f].mask => net.repo[f].eh \in Acceptors
         /\ "READ" \in net.repo[f].mask => net.repo[f].eh \in Fds
         /\ net.sk[f].st = "closed" => FreeSlot(f)
         /\ trp[f] = "cut" => CutSlot(f)
         /\ trp[f] = "open" => OpenSlot(f)
<1>1. CASE FreeSlot(f)
  BY <1>1, SlotKinds, Kinds, Zenon DEF FreeSlot
<1>2. CASE CutSlot(f)
  BY <1>2, SlotKinds, Kinds, Zenon DEF CutSlot
<1>3. CASE OpenSlot(f)
  BY <1>3, SlotKinds, Kinds DEF OpenSlot
<1>4. CASE ConnectSlot(f)
  BY <1>4, SlotKinds, Kinds DEF ConnectorHas
<1>5. CASE ListenSlot(f)
  BY <1>5, SlotKinds, Kinds DEF AcceptorHas
<1> QED BY <1>1, <1>2, <1>3, <1>4, <1>5, Zenon DEF SlotOK

\* A connector or an acceptor has no descriptor but the one it handles.
LEMMA NotHis ==
  ASSUME Owned, NEW f \in Fds
  PROVE  /\ \A c \in Connectors : net.repo[f].eh # c => con[c].fd # f
         /\ \A a \in Acceptors : net.repo[f].eh # a => acc[a] # f
BY Kinds, Zenon DEF Owned, ConOK, AccOK

---------------------------------------------------------------------------
(* What the callbacks and requests do to a descriptor and its owner.       *)

\* Connector d changes and no acceptor does.
LEMMA MovesConnector ==
  ASSUME TypeOK, Owned, NEW f \in Fds, NEW d \in Connectors, NEW v,
         con' = [con EXCEPT ![d] = v], acc' = acc, con[d].fd \in {0, f},
         net.repo[f].eh \in {d, None}, ConOK(d)'
  PROVE  OwnersFollow(f)
<1>1. ASSUME NEW c \in Connectors, c # d
      PROVE  con'[c] = con[c] /\ con[c].fd # f
  <2>1. con'[c] = con[c]
    BY <1>1, Zenon DEF TypeOK
  <2>2. net.repo[f].eh # c
    BY <1>1, Kinds, Zenon
  <2> QED BY <2>1, <2>2, NotHis, Zenon
<1>2. ASSUME NEW a \in Acceptors PROVE acc'[a] = acc[a] /\ acc[a] # f
  <2>1. net.repo[f].eh # a
    BY Kinds, Zenon
  <2> QED BY <2>1, NotHis, Zenon
<1>3. \A c \in Connectors : \/ con'[c] = con[c] /\ con[c].fd # f
                            \/ con[c].fd \in {0, f} /\ ConOK(c)'
  <2> TAKE c \in Connectors
  <2>1. CASE c = d
    BY <2>1, Zenon
  <2> QED BY <2>1, <1>1, Zenon
<1> QED BY <1>2, <1>3, Zenon DEF OwnersFollow

\* Acceptor b changes and no connector does.
LEMMA MovesAcceptor ==
  ASSUME TypeOK, Owned, NEW f \in Fds, NEW b \in Acceptors, NEW v,
         acc' = [acc EXCEPT ![b] = v], con' = con, acc[b] \in {0, f},
         net.repo[f].eh \in {b, None}, AccOK(b)'
  PROVE  OwnersFollow(f)
<1>1. ASSUME NEW a \in Acceptors, a # b
      PROVE  acc'[a] = acc[a] /\ acc[a] # f
  <2>1. acc'[a] = acc[a]
    BY <1>1, Zenon DEF TypeOK
  <2>2. net.repo[f].eh # a
    BY <1>1, Kinds, Zenon
  <2> QED BY <2>1, <2>2, NotHis, Zenon
<1>2. ASSUME NEW c \in Connectors PROVE con'[c] = con[c] /\ con[c].fd # f
  <2>1. net.repo[f].eh # c
    BY Kinds, Zenon
  <2> QED BY <2>1, NotHis, Zenon
<1>3. \A a \in Acceptors : \/ acc'[a] = acc[a] /\ acc[a] # f
                           \/ acc[a] \in {0, f} /\ AccOK(a)'
  <2> TAKE a \in Acceptors
  <2>1. CASE a = b
    BY <2>1, Zenon
  <2> QED BY <2>1, <1>1, Zenon
<1> QED BY <1>2, <1>3, Zenon DEF OwnersFollow

\* Neither changes, and the descriptor has a transport or nobody.
LEMMA MovesNone ==
  ASSUME TypeOK, Owned, NEW f \in Fds, con' = con, acc' = acc,
         net.repo[f].eh \in {f, None}
  PROVE  OwnersFollow(f)
<1>1. ASSUME NEW a \in Acceptors PROVE acc'[a] = acc[a] /\ acc[a] # f
  <2>1. net.repo[f].eh # a
    BY Kinds, Zenon
  <2> QED BY <2>1, NotHis, Zenon
<1>2. ASSUME NEW c \in Connectors PROVE con'[c] = con[c] /\ con[c].fd # f
  <2>1. net.repo[f].eh # c
    BY Kinds, Zenon
  <2> QED BY <2>1, NotHis, Zenon
<1> QED BY <1>1, <1>2, Zenon DEF OwnersFollow

\* The fields of the entry written.
LEMMA AtEntry ==
  ASSUME NEW n \in NetType, NEW f \in Fds, NEW h, NEW mask, NEW w, NEW x, NEW s,
         NEW m, m = At(n, f, [eh |-> h, mask |-> mask], w, x, s)
  PROVE  m.repo[f].eh = h /\ m.repo[f].mask = mask
<1>1. PICK e : e = [eh |-> h, mask |-> mask]
  BY Zenon
<1>2. e.eh = h /\ e.mask = mask
  BY <1>1
<1>3. m.repo[f] = e
  BY <1>1, AtHere
<1> QED BY <1>2, <1>3, Zenon

\* Another descriptor's transport stays.
LEMMA TrpAt ==
  ASSUME TypeOK, NEW f \in Fds, NEW t, trp' = [trp EXCEPT ![f] = t]
  PROVE  trp'[f] = t /\ \A g \in Fds : g # f => trp'[g] = trp[g]
BY Zenon DEF TypeOK

\* A descriptor that loses its handler: the transport is cut, or the socket
\* is closed as well.
LEMMA SlotLeft ==
  ASSUME TypeOK, Owned, NEW f \in Fds, NEW s, NEW t,
         net' = At(net, f, Cleared, {}, {}, s), trp' = [trp EXCEPT ![f] = t],
         OwnersFollow(f), BatchKept(f),
         \/ s.st = "closed" /\ t = "none"
         \/ s.st # "closed" /\ t = "cut"
  PROVE  Owned'
<1>0. net \in NetType
  BY Zenon DEF TypeOK
<1>1. /\ net'.repo[f] = Cleared /\ net'.want[f] = {} /\ net'.act[f] = {}
      /\ net'.sk[f] = s
  BY <1>0, AtHere
<1>2. Cleared.eh = None /\ Cleared.mask = {}
  BY Zenon DEF Cleared
<1>3. SlotOK(f)'
  BY <1>1, TrpAt, Zenon DEF SlotOK, FreeSlot, CutSlot
<1>4. WatchOK(f)'
  BY <1>1, <1>2, WantIs, Zenon DEF WatchOK
<1>5. EdgeOK(f)'
  BY <1>1, <1>2, Kinds, Zenon DEF EdgeOK
<1> QED BY <1>3, <1>4, <1>5, TrpAt, OneSlot, Zenon

\* A descriptor gets a transport as its handler.
LEMMA SlotOpened ==
  ASSUME TypeOK, Owned, NEW f \in Fds, NEW s, s.st # "closed",
         net' = At(net, f, [eh |-> f, mask |-> {"READ", "WRITE"}],
                   Want({"READ", "WRITE"}),
                   Ready(s) \cap Want({"READ", "WRITE"}), s),
         trp' = [trp EXCEPT ![f] = "open"], OwnersFollow(f), BatchKept(f)
  PROVE  Owned'
<1>0. net \in NetType
  BY Zenon DEF TypeOK
<1>1. /\ net'.repo[f] = [eh |-> f, mask |-> {"READ", "WRITE"}]
      /\ net'.want[f] = Want({"READ", "WRITE"})
      /\ net'.act[f] = Ready(s) \cap Want({"READ", "WRITE"})
      /\ net'.sk[f] = s
  BY <1>0, AtHere
<1>2. net'.repo[f].eh = f /\ net'.repo[f].mask = {"READ", "WRITE"}
  BY <1>0, AtEntry
<1>3. SlotOK(f)'
  BY <1>1, TrpAt, Zenon DEF SlotOK, OpenSlot
<1>4. WatchOK(f)'
  BY <1>1, <1>2, Zenon DEF WatchOK
<1>5. EdgeOK(f)'
  <2>1. "IN" \in Ready(s) => "IN" \in net'.act[f]
    BY <1>1, WantIs, Zenon
  <2> QED BY <1>1, <1>2, <2>1, Kinds, Zenon DEF EdgeOK, Pending
<1> QED BY <1>3, <1>4, <1>5, TrpAt, OneSlot, Zenon

\* A descriptor gets a connector as its handler.
LEMMA SlotConnects ==
  ASSUME TypeOK, Owned, NEW f \in Fds, NEW c \in Connectors, NEW s, NEW x,
         s.st # "closed", con'[c].fd = f,
         net' = At(net, f, [eh |-> c, mask |-> {"CONNECT"}], Want({"CONNECT"}), x, s),
         Ready(s) \cap Want({"CONNECT"}) \subseteq x, x \subseteq Want({"CONNECT"}),
         trp' = [trp EXCEPT ![f] = "held"], OwnersFollow(f), BatchKept(f)
  PROVE  Owned'
<1>0. net \in NetType
  BY Zenon DEF TypeOK
<1>1. /\ net'.repo[f] = [eh |-> c, mask |-> {"CONNECT"}]
      /\ net'.want[f] = Want({"CONNECT"})
      /\ net'.act[f] = x
      /\ net'.sk[f] = s
  BY <1>0, AtHere
<1>2. net'.repo[f].eh = c /\ net'.repo[f].mask = {"CONNECT"}
  BY <1>0, AtEntry
<1>3. SlotOK(f)'
  BY <1>1, TrpAt, Zenon DEF SlotOK, ConnectSlot
<1>4. WatchOK(f)'
  BY <1>1, <1>2, Zenon DEF WatchOK
<1>5. EdgeOK(f)'
  <2>1. "OUT" \in Ready(s) => "OUT" \in net'.act[f]
    BY <1>1, WantIs, Zenon
  <2> QED BY <1>1, <1>2, <2>1, Kinds, Zenon DEF EdgeOK, Pending
<1> QED BY <1>3, <1>4, <1>5, TrpAt, OneSlot

\* A descriptor gets an acceptor as its handler.
LEMMA SlotListens ==
  ASSUME TypeOK, Owned, NEW f \in Fds, NEW a \in Acceptors, NEW s, NEW x,
         s.st = "listening", acc'[a] = f, trp[f] = "none",
         net' = At(net, f, [eh |-> a, mask |-> {"ACCEPT"}], Want({"ACCEPT"}), x, s),
         x \subseteq Want({"ACCEPT"}),
         trp' = trp, OwnersFollow(f), BatchKept(f)
  PROVE  Owned'
<1>0. net \in NetType
  BY Zenon DEF TypeOK
<1>1. /\ net'.repo[f] = [eh |-> a, mask |-> {"ACCEPT"}]
      /\ net'.want[f] = Want({"ACCEPT"})
      /\ net'.act[f] = x
      /\ net'.sk[f] = s
  BY <1>0, AtHere
<1>2. net'.repo[f].eh = a /\ net'.repo[f].mask = {"ACCEPT"}
  BY <1>0, AtEntry
<1>3. SlotOK(f)'
  BY <1>1, Zenon DEF SlotOK, ListenSlot
<1>4. WatchOK(f)'
  <2>1. net'.act[f] \subseteq net'.want[f]
    BY <1>1, Zenon
  <2> QED BY <1>1, <1>2, <2>1, Zenon DEF WatchOK
<1>5. EdgeOK(f)'
  BY <1>1, <1>2, Kinds, Zenon DEF EdgeOK
<1> QED BY <1>3, <1>4, <1>5, OneSlot

---------------------------------------------------------------------------
(* The end of a connect.                                                   *)

\* The types of the owners and descriptors, under their names here.
LEMMA CoreHolds ==
  ASSUME TypeOK PROVE Core
BY Zenon DEF TypeOK, Core, ConType

\* A connector's descriptor has the connector as its handler.
LEMMA ConnectorOwns ==
  ASSUME Owned, NEW f \in Fds, NEW c \in Connectors, con[c].fd = f
  PROVE  /\ net.repo[f].eh = c /\ ConnectorHas(f) /\ con[c].st = "busy"
         /\ con[c].told = 0 /\ net.sk[f].st # "closed"
<1>0. f # 0
  BY Kinds, Zenon
<1>1. net.repo[f].eh = c /\ con[c].st = "busy"
  BY <1>0, Zenon DEF Owned, ConOK
<1>2. ConnectorHas(f)
  BY <1>1, SlotTells, Zenon DEF Owned
<1>3. con[c].told = 0
  <2>1. "busy" # "done"
    BY Zenon
  <2> QED BY <1>1, <2>1, Zenon DEF Owned, ConOK
<1> QED BY <1>1, <1>2, <1>3, Zenon DEF ConnectorHas

\* A connector that ends owns its descriptor, and Close_i clears it, also
\* after RemoveHandleWithoutFinding_i has done so.
LEMMA CloseIsAt ==
  ASSUME TypeOK, Owned, NEW c \in Connectors, NEW f \in Fds, con[c].fd = f
  PROVE  /\ Close_i(net, c) = At(net, f, Cleared, {}, {}, net.sk[f])
         /\ RemoveHandler(net, f, Masks) = At(net, f, Cleared, {}, {}, net.sk[f])
         /\ Close_i(At(net, f, Cleared, {}, {}, net.sk[f]), c)
              = At(net, f, Cleared, {}, {}, net.sk[f])
<1>0. net \in NetType /\ f # 0
  BY Kinds, Zenon DEF TypeOK
<1>1. ConnectorHas(f)
  BY ConnectorOwns, Zenon
<1>3. net.repo[f].mask = {"CONNECT"}
  BY <1>1 DEF ConnectorHas
<1>4. RemoveHandler(net, f, {"CONNECT"}) = At(net, f, Cleared, {}, {}, net.sk[f])
  <2>1. net.repo[f].mask # {} /\ net.repo[f].mask \subseteq {"CONNECT"}
    BY <1>3, Zenon
  <2> QED BY <1>0, <2>1, RemoveAll, Zenon
<1>5. RemoveHandler(net, f, Masks) = At(net, f, Cleared, {}, {}, net.sk[f])
  <2>1. net.repo[f].mask # {} /\ net.repo[f].mask \subseteq Masks
    BY <1>3, Zenon DEF Masks
  <2> QED BY <1>0, <2>1, RemoveAll, Zenon
<1>6. PICK n : n = At(net, f, Cleared, {}, {}, net.sk[f])
  BY Zenon
<1>7. n.repo[f].mask = {}
  <2>1. n.repo[f] = Cleared
    BY <1>0, <1>6, AtHere
  <2> QED BY <2>1 DEF Cleared
<1>8. RemoveHandler(n, f, {"CONNECT"}) = n
  BY <1>7, RemoveNone, Zenon
<1> QED BY <1>0, <1>4, <1>5, <1>6, <1>8, Zenon DEF Close_i

\* The connector had no descriptor.
LEMMA EndsWithout ==
  ASSUME TypeOK, Owned, NEW c \in Connectors, NEW v \in ConType, con[c].fd = 0,
         v.fd = 0, v.st = "done", v.timer = "none",
         con' = [con EXCEPT ![c] = v],
         net' = net, trp' = trp, acc' = acc, batch' = batch
  PROVE  Owned' /\ Core'
<1>0. Core
  BY CoreHolds, Zenon
<1>1. con'[c] = v /\ \A d \in Connectors : d # c => con'[d] = con[d]
  BY <1>0, ChangedAt, Zenon DEF Core
<1>2. con' \in [Connectors -> ConType]
  BY <1>0, ChangedAt, Zenon DEF Core
<1>3. ConOK(c)'
  BY <1>1, Zenon DEF ConOK
<1>4. Owned'
  BY <1>1, <1>3, ConnectorOnly
<1> QED BY <1>0, <1>2, <1>4, Zenon DEF Core

\* The connector had descriptor f, whose transport is cut.
LEMMA EndsWith ==
  ASSUME TypeOK, Owned, NEW c \in Connectors, NEW v \in ConType,
         NEW f \in Fds, con[c].fd = f,
         v.fd = 0, v.st = "done", v.timer = "none",
         con' = [con EXCEPT ![c] = v],
         net' = At(net, f, Cleared, {}, {}, net.sk[f]),
         trp' = [trp EXCEPT ![f] = "cut"], acc' = acc, BatchKept(f)
  PROVE  Owned' /\ Core'
<1>0. Core
  BY CoreHolds, Zenon
<1>1. con'[c] = v
  BY <1>0, ChangedAt, Zenon DEF Core
<1>2. con' \in [Connectors -> ConType]
  BY <1>0, ChangedAt, Zenon DEF Core
<1>3. ConOK(c)'
  BY <1>1, Zenon DEF ConOK
<1>4. net.repo[f].eh = c /\ net.sk[f].st # "closed"
  BY ConnectorOwns, Zenon
<1>5. OwnersFollow(f)
  <2>1. con[c].fd \in {0, f} /\ net.repo[f].eh \in {c, None}
    BY <1>4, Zenon
  <2> QED BY <1>3, <2>1, MovesConnector, Zenon
<1>6. Owned'
  BY <1>4, <1>5, SlotLeft, Zenon
<1>7. net' \in NetType
  <2>1. net.sk[f] \in Sock
    BY <1>0, Fields DEF Core
  <2>2. Cleared \in Entry /\ {} \in SUBSET Filters
    BY EntryType, Zenon
  <2> QED BY <1>0, <2>1, <2>2, AtType, Zenon DEF Core
<1>8. trp' \in [Fds -> {"none", "held", "open", "cut"}]
  BY <1>0 DEF Core
<1> QED BY <1>0, <1>2, <1>6, <1>7, <1>8, Zenon DEF Core

\* The record an answered connector is left with.
LEMMA AnsweredIs ==
  ASSUME TypeOK, NEW c \in Connectors, con[c].told = 0
  PROVE  \E v \in ConType : /\ v.fd = 0 /\ v.st = "done" /\ v.timer = "none"
                            /\ Answered(c) = [con EXCEPT ![c] = v]
<1> DEFINE v == [st |-> "done", fd |-> 0, timer |-> "none", told |-> con[c].told + 1]
<1>1. v \in ConType /\ v.fd = 0 /\ v.st = "done" /\ v.timer = "none"
  BY DEF ConType
<1>2. Answered(c) = [con EXCEPT ![c] = v]
  BY Zenon DEF Answered
<1> QED BY <1>1, <1>2, Zenon

\* ConnectFails, called on the network as it is or with the handler gone.
LEMMA FailsKeeps ==
  ASSUME TypeOK, Owned, NEW c \in Connectors, NEW f \in Fds, con[c].fd = f,
         NEW n, n = net \/ n = RemoveHandler(net, f, Masks),
         ConnectFails(n, c), acc' = acc, BatchKept(f)
  PROVE  Owned' /\ Core' /\ faults' = faults
<1>1. con[c].told = 0 /\ f # 0
  BY ConnectorOwns, Kinds, Zenon
<1>2. PICK v \in ConType : /\ v.fd = 0 /\ v.st = "done" /\ v.timer = "none"
                           /\ Answered(c) = [con EXCEPT ![c] = v]
  BY <1>1, AnsweredIs, Zenon
<1>3. Close_i(n, c) = At(net, f, Cleared, {}, {}, net.sk[f])
  BY CloseIsAt, Zenon
<1>4. /\ net' = At(net, f, Cleared, {}, {}, net.sk[f])
      /\ trp' = [trp EXCEPT ![f] = "cut"]
      /\ con' = [con EXCEPT ![c] = v]
      /\ faults' = faults
  BY <1>1, <1>2, <1>3, Zenon DEF ConnectFails, LetGo
<1> QED BY <1>2, <1>4, EndsWith, Zenon

\* ConnectSucceeds: the transport takes the connector's place.
LEMMA SucceedsKeeps ==
  ASSUME TypeOK, Owned, NEW c \in Connectors, NEW f \in Fds, con[c].fd = f,
         ConnectSucceeds(net, c, f), acc' = acc, BatchKept(f)
  PROVE  Owned' /\ Core' /\ faults' \subseteq faults \cup {"FalseSuccess"}
<1> DEFINE mask == {"READ", "WRITE"}
<1>0. Core
  BY CoreHolds, Zenon
<1>1. /\ net.repo[f].eh = c /\ con[c].told = 0 /\ net.sk[f].st # "closed"
  BY ConnectorOwns, Zenon
<1>2. PICK v \in ConType : /\ v.fd = 0 /\ v.st = "done" /\ v.timer = "none"
                           /\ Answered(c) = [con EXCEPT ![c] = v]
  BY <1>1, AnsweredIs, Zenon
<1>3. PICK m : m = At(net, f, Cleared, {}, {}, net.sk[f])
  BY Zenon
<1>4. Close_i(net, c) = m
  BY <1>3, CloseIsAt, Zenon
<1>5. net.sk[f] \in Sock /\ net \in NetType
  BY <1>0, Fields DEF Core
<1>6. m \in NetType /\ m.repo[f].eh = None /\ m.sk[f] = net.sk[f]
  <2>1. m.repo[f] = Cleared /\ m.sk[f] = net.sk[f]
    BY <1>3, <1>5, AtHere
  <2>2. Cleared.eh = None
    BY Zenon DEF Cleared
  <2>3. Cleared \in Entry /\ {} \in SUBSET Filters
    BY EntryType, Zenon
  <2> QED BY <1>3, <1>5, <2>1, <2>2, <2>3, AtType, Zenon
<1>7. net' = At(net, f, [eh |-> f, mask |-> mask], Want(mask),
                Ready(net.sk[f]) \cap Want(mask), net.sk[f])
  <2>1. net' = RegisterHandler(m, f, f, mask)
    BY <1>4, Zenon DEF ConnectSucceeds
  <2>2. RegisterHandler(m, f, f, mask)
          = At(m, f, [eh |-> f, mask |-> mask], Want(mask),
               Ready(m.sk[f]) \cap Want(mask), m.sk[f])
    BY <1>6, RegisterFree
  <2>3. PICK r, w, x, k : /\ r = [eh |-> f, mask |-> mask] /\ w = Want(mask)
                          /\ x = Ready(net.sk[f]) \cap Want(mask) /\ k = net.sk[f]
    BY Zenon
  <2>4. net' = At(m, f, r, w, x, k)
    BY <1>6, <2>1, <2>2, <2>3, Zenon
  <2>5. At(m, f, r, w, x, k) = At(net, f, r, w, x, k)
    BY <1>3, <1>5, AtTwice
  <2> QED BY <2>3, <2>4, <2>5, Zenon
<1>8. /\ trp' = [trp EXCEPT ![f] = "open"] /\ con' = [con EXCEPT ![c] = v]
      /\ faults' \subseteq faults \cup {"FalseSuccess"}
  BY <1>2, Zenon DEF ConnectSucceeds
<1>9. con'[c] = v /\ con' \in [Connectors -> ConType]
  BY <1>0, <1>8, ChangedAt DEF Core
<1>10. OwnersFollow(f)
  <2>1. con[c].fd \in {0, f} /\ net.repo[f].eh \in {c, None}
    BY <1>1, Zenon
  <2>2. ConOK(c)'
    BY <1>2, <1>9 DEF ConOK
  <2> QED BY <1>8, <2>1, <2>2, MovesConnector, Zenon
<1>11. Owned'
  BY <1>1, <1>7, <1>8, <1>10, SlotOpened, Zenon
<1>12. net' \in NetType
  <2>1. [eh |-> f, mask |-> mask] \in Entry
    BY EntryType, Zenon
  <2>2. /\ Want(mask) \in SUBSET Filters
        /\ Ready(net.sk[f]) \cap Want(mask) \in SUBSET Filters
    BY WantType, ReadyType
  <2> QED BY <1>5, <1>7, <2>1, <2>2, AtType, Zenon
<1>13. trp' \in [Fds -> {"none", "held", "open", "cut"}]
  BY <1>0, <1>8, Zenon DEF Core
<1> QED BY <1>0, <1>8, <1>9, <1>11, <1>12, <1>13, Zenon DEF Core

\* TransportOnClose, after the handler is gone.
LEMMA ClosesKeeps ==
  ASSUME TypeOK, Owned, NEW f \in Fds, net.repo[f].eh = f,
         TransportOnClose(RemoveHandler(net, f, Masks), f), acc' = acc, BatchKept(f)
  PROVE  Owned' /\ Core' /\ faults' = faults
<1>0. Core
  BY CoreHolds, Zenon
<1>1. OpenSlot(f)
  BY SlotTells, Zenon DEF Owned
<1>2. net.repo[f].mask # {} /\ net.repo[f].mask \subseteq Masks
  BY <1>1, SlotKinds DEF Masks
<1>3. net \in NetType /\ net.sk[f] \in Sock
  BY <1>0, Fields, Zenon DEF Core
<1>4. PICK m : m = At(net, f, Cleared, {}, {}, net.sk[f])
  BY Zenon
<1>5. RemoveHandler(net, f, Masks) = m
  BY <1>2, <1>3, <1>4, RemoveAll, Zenon
<1>6. Cleared \in Entry /\ {} \in SUBSET Filters
  BY EntryType
<1>7. m \in NetType /\ m.repo[f] = Cleared
  <2>1. m \in NetType
    BY <1>3, <1>4, <1>6, AtType, Zenon
  <2>2. m.repo[f] = Cleared
    BY <1>3, <1>4, AtHere
  <2> QED BY <2>1, <2>2, Zenon
<1>8. net' = At(net, f, Cleared, {}, {}, Closed)
  <2>1. net' = CloseFd(m, f)
    BY <1>5, Zenon DEF TransportOnClose
  <2>2. CloseFd(m, f) = At(m, f, m.repo[f], {}, {}, Closed)
    BY <1>7, CloseIs, Zenon
  <2> QED BY <1>3, <1>4, <1>7, <2>1, <2>2, AtTwice
<1>9. trp' = [trp EXCEPT ![f] = "none"] /\ con' = con /\ faults' = faults
  BY Zenon DEF TransportOnClose
<1>10. OwnersFollow(f)
  BY <1>9, MovesNone, Zenon
<1>11. Closed.st = "closed" /\ Closed \in Sock
  BY BoundsAssumption DEF Closed, Sock, States
<1>12. Owned'
  BY <1>8, <1>9, <1>10, <1>11, SlotLeft, Zenon
<1>13. net' \in NetType
  BY <1>3, <1>6, <1>8, <1>11, AtType, Zenon
<1>14. trp' \in [Fds -> {"none", "held", "open", "cut"}]
  BY <1>0, <1>9, Zenon DEF Core
<1> QED BY <1>0, <1>9, <1>12, <1>13, <1>14, Zenon DEF Core

\* RemoveHandleWithoutFinding_i with SHOULD_CALL, on a connector's descriptor
\* or a transport's.
LEMMA RemoveKeeps ==
  ASSUME TypeOK, Owned, NEW f \in Fds, net.repo[f].eh \notin Acceptors,
         RemoveAndClose(f), acc' = acc, BatchKept(f)
  PROVE  Owned' /\ Core' /\ faults' = faults
<1>1. CASE net.repo[f].eh \in Connectors
  <2>1. PICK c \in Connectors : c = net.repo[f].eh
    BY <1>1, Zenon
  <2>2. ConnectFails(RemoveHandler(net, f, Masks), c)
    BY <1>1, <2>1, Kinds, Zenon DEF RemoveAndClose
  <2>3. con[c].fd = f
    BY <1>1, <2>1, SlotTells, Zenon DEF Owned, ConnectorHas
  <2> QED BY <2>2, <2>3, FailsKeeps, Zenon
<1>2. CASE net.repo[f].eh \in Fds
  <2>1. net.repo[f].eh = f
    BY <1>2, SlotTells, SlotKinds, Zenon DEF Owned
  <2>2. TransportOnClose(RemoveHandler(net, f, Masks), f)
    BY <1>2, <2>1, Kinds, Zenon DEF RemoveAndClose
  <2> QED BY <2>1, <2>2, ClosesKeeps, Zenon
<1> QED BY <1>1, <1>2, Zenon DEF RemoveAndClose

\* Something happens to the socket of a descriptor in use.
LEMMA SocketKeeps ==
  ASSUME TypeOK, Owned, NEW f \in Fds, NEW s \in Sock, NEW x,
         net' = At(net, f, net.repo[f], net.want[f], x, s),
         net.sk[f].st # "closed", s.st # "closed",
         net.sk[f].st = "listening" => s.st = "listening",
         x \subseteq net.want[f],
         \/ Ready(s) \cap net.want[f] \subseteq x
         \/ net.repo[f].eh = f /\ "IN" \notin Ready(s),
         con' = con, acc' = acc, trp' = trp, BatchKept(f)
  PROVE  Owned' /\ Core'
<1>0. Core /\ SlotOK(f) /\ WatchOK(f)
  BY CoreHolds, Zenon DEF Owned
<1>1. /\ net.repo[f] \in Entry /\ net.want[f] \in SUBSET Filters
      /\ net \in NetType
  BY <1>0, Fields DEF Core
<1>2. net' \in NetType
  BY <1>1, AtType, Zenon
<1>3. /\ net'.repo[f] = net.repo[f] /\ net'.want[f] = net.want[f]
      /\ net'.act[f] = x /\ net'.sk[f] = s
  BY <1>1, AtHere
<1>4. SlotOK(f)'
  <2>1. ~FreeSlot(f)
    BY Zenon DEF FreeSlot
  <2> QED BY <1>0, <1>3, <2>1, Zenon DEF SlotOK, CutSlot, OpenSlot, ConnectSlot,
                                       ListenSlot
<1>5. WatchOK(f)'
  BY <1>0, <1>3, Zenon DEF WatchOK
<1>6. EdgeOK(f)'
  <2>1. CASE net.repo[f].eh \in Connectors
    <3>1. net.repo[f].mask = {"CONNECT"}
      <4>1. net.repo[f] = [eh |-> net.repo[f].eh, mask |-> {"CONNECT"}]
        BY <1>0, <2>1, SlotTells, Zenon DEF ConnectorHas
      <4> QED BY <4>1
    <3>2. net.want[f] = {"OUT"}
      BY <1>0, <3>1, WantIs, Zenon DEF WatchOK
    <3>3. net.repo[f].eh # f
      BY <2>1, Kinds, Zenon
    <3>4. "OUT" \in Ready(s) => "OUT" \in x
      BY <3>2, <3>3, Zenon
    <3> QED BY <1>3, <2>1, <3>4, Kinds, Zenon DEF EdgeOK, Pending
  <2>2. CASE net.repo[f].eh \in Fds
    <3>1. net.repo[f].mask = {"READ", "WRITE"}
      BY <1>0, <2>2, SlotTells, SlotKinds, Zenon
    <3>2. net.want[f] = {"IN", "OUT"}
      BY <1>0, <3>1, WantIs, Zenon DEF WatchOK
    <3>4. "IN" \in Ready(s) => "IN" \in x
      BY <3>2, Zenon
    <3> QED BY <1>3, <2>2, <3>4, Kinds, Zenon DEF EdgeOK, Pending
  <2> QED BY <1>3, <2>1, <2>2, Zenon DEF EdgeOK
<1>7. Owned'
  BY <1>4, <1>5, <1>6, SameOwner
<1> QED BY <1>0, <1>2, <1>7, Zenon DEF Core

\* CFSTransportTcp::OnEpollInput.
LEMMA InputKeeps ==
  ASSUME TypeOK, Owned, NEW f \in Fds, net.repo[f].eh \in Fds,
         TransportOnInput(f), acc' = acc, BatchKept(f)
  PROVE  Owned' /\ Core' /\ faults' = faults
<1>1. CASE net.sk[f].st = "connected"
  <2>0. Core /\ WatchOK(f) /\ SlotOK(f)
    BY CoreHolds, Zenon DEF Owned
  <2>1. /\ net' = RxAt(net, f, 0)
        /\ con' = con /\ trp' = trp /\ faults' = faults
    BY <1>1, Zenon DEF TransportOnInput, RxAt
  <2>2. net \in NetType
    BY <2>0, Zenon DEF Core
  <2>3. PICK s : s = [st |-> "connected", rx |-> 0]
    BY Zenon
  <2>4. net' = At(net, f, net.repo[f], net.want[f], net.act[f], s)
    <3>1. RxAt(net, f, 0)
            = At(net, f, net.repo[f], net.want[f], net.act[f],
                 [st |-> net.sk[f].st, rx |-> 0])
      BY <2>2, SocketIn, Zenon
    <3> QED BY <1>1, <2>1, <2>3, <3>1, Zenon
  <2>5. /\ s \in Sock /\ s.st # "closed" /\ "IN" \notin Ready(s)
        /\ net.sk[f].st # "closed" /\ net.sk[f].st # "listening"
    BY <1>1, <2>3, BoundsAssumption DEF Sock, States, Ready
  <2>6. net.repo[f].eh = f
    BY <2>0, SlotTells, SlotKinds, Zenon
  <2>7. net.act[f] \subseteq net.want[f]
    BY <2>0, Zenon DEF WatchOK
  <2> QED BY <2>1, <2>4, <2>5, <2>6, <2>7, SocketKeeps
<1>2. CASE net.sk[f].st # "connected"
  <2>1. RemoveAndClose(f)
    BY <1>2, Zenon DEF TransportOnInput
  <2>2. net.repo[f].eh \notin Acceptors
    BY Kinds, Zenon
  <2> QED BY <2>1, <2>2, RemoveKeeps, Zenon
<1> QED BY <1>1, <1>2, Zenon

---------------------------------------------------------------------------
(* Several descriptors change: accept.                                     *)

\* Open_t on free descriptors: each gets its transport, the others stay.
LEMMA OpenIs ==
  ASSUME NEW n \in NetType, NEW new \in SUBSET Fds,
         \A g \in new : n.repo[g].eh = None, NEW m, m = Open_t(n, new)
  PROVE  /\ m \in NetType /\ m.sk = n.sk
         /\ \A g \in new :
              /\ m.repo[g] = [eh |-> g, mask |-> {"READ", "WRITE"}]
              /\ m.want[g] = Want({"READ", "WRITE"})
              /\ m.act[g] = Ready(n.sk[g]) \cap Want({"READ", "WRITE"})
         /\ \A g \in Fds : g \notin new =>
              /\ m.repo[g] = n.repo[g] /\ m.want[g] = n.want[g]
              /\ m.act[g] = n.act[g]
<1> DEFINE reg(g) == IF g \in new THEN RegisterHandler(n, g, g, {"READ", "WRITE"})
                     ELSE n
<1>1. m = [repo |-> [g \in Fds |-> reg(g).repo[g]],
           want |-> [g \in Fds |-> reg(g).want[g]],
           act |-> [g \in Fds |-> reg(g).act[g]], sk |-> n.sk]
  BY Zenon DEF Open_t
<1>2. ASSUME NEW g \in new
      PROVE  /\ reg(g) \in NetType
             /\ reg(g).repo[g] = [eh |-> g, mask |-> {"READ", "WRITE"}]
             /\ reg(g).want[g] = Want({"READ", "WRITE"})
             /\ reg(g).act[g] = Ready(n.sk[g]) \cap Want({"READ", "WRITE"})
  <2>1. g \in Fds /\ n.repo[g].eh = None
    BY Zenon
  <2>2. PICK r, w, x, s : /\ r = [eh |-> g, mask |-> {"READ", "WRITE"}]
                          /\ w = Want({"READ", "WRITE"})
                          /\ x = Ready(n.sk[g]) \cap Want({"READ", "WRITE"})
                          /\ s = n.sk[g]
    BY Zenon
  <2>3. RegisterHandler(n, g, g, {"READ", "WRITE"}) = At(n, g, r, w, x, s)
    BY <2>1, <2>2, RegisterFree, Zenon
  <2>4. r \in Entry /\ w \in SUBSET Filters /\ s \in Sock
    BY <2>1, <2>2, EntryType, WantType, Fields
  <2>5. x \in SUBSET Filters
    BY <2>2, ReadyType, Zenon
  <2>6. At(n, g, r, w, x, s) \in NetType
    BY <2>1, <2>4, <2>5, AtType, Zenon
  <2>7. LET k == At(n, g, r, w, x, s) IN
        k.repo[g] = r /\ k.want[g] = w /\ k.act[g] = x
    BY <2>1, AtHere
  <2> QED BY <2>2, <2>3, <2>6, <2>7, Zenon
<1>3. ASSUME NEW g \in Fds, g \notin new PROVE reg(g) = n
  BY <1>3, Zenon
<1> HIDE DEF reg
<1>4. ASSUME NEW g \in Fds PROVE reg(g) \in NetType
  BY <1>2, <1>3, Zenon
<1>5. ASSUME NEW g \in Fds
      PROVE  /\ reg(g).repo[g] \in Entry /\ reg(g).want[g] \in SUBSET Filters
             /\ reg(g).act[g] \in SUBSET Filters
  BY <1>4, Fields
<1>6. /\ [g \in Fds |-> reg(g).repo[g]] \in [Fds -> Entry]
      /\ [g \in Fds |-> reg(g).want[g]] \in [Fds -> SUBSET Filters]
      /\ [g \in Fds |-> reg(g).act[g]] \in [Fds -> SUBSET Filters]
  BY <1>5, Zenon
<1>7. n.sk \in [Fds -> Sock]
  BY Fields, Zenon
<1>8. m \in NetType
  <2>1. PICK a, b, c : /\ a = [g \in Fds |-> reg(g).repo[g]]
                       /\ b = [g \in Fds |-> reg(g).want[g]]
                       /\ c = [g \in Fds |-> reg(g).act[g]]
    BY Zenon
  <2>2. m = [repo |-> a, want |-> b, act |-> c, sk |-> n.sk]
    BY <1>1, <2>1, Zenon
  <2>3. /\ a \in [Fds -> Entry] /\ b \in [Fds -> SUBSET Filters]
        /\ c \in [Fds -> SUBSET Filters]
    BY <1>6, <2>1, Zenon
  <2>4. [repo |-> a, want |-> b, act |-> c, sk |-> n.sk] \in NetType
    BY <1>7, <2>3, Made, Zenon
  <2> QED BY <2>2, <2>4, Zenon
<1>9. /\ m.sk = n.sk /\ m.repo = [g \in Fds |-> reg(g).repo[g]]
      /\ m.want = [g \in Fds |-> reg(g).want[g]]
      /\ m.act = [g \in Fds |-> reg(g).act[g]]
  BY <1>1
<1>10. \A g \in Fds : /\ m.repo[g] = reg(g).repo[g] /\ m.want[g] = reg(g).want[g]
                      /\ m.act[g] = reg(g).act[g]
  BY <1>9, Zenon
<1>11. ASSUME NEW g \in new
       PROVE  /\ m.repo[g] = [eh |-> g, mask |-> {"READ", "WRITE"}]
              /\ m.want[g] = Want({"READ", "WRITE"})
              /\ m.act[g] = Ready(n.sk[g]) \cap Want({"READ", "WRITE"})
  <2>1. g \in Fds
    BY Zenon
  <2>2. /\ m.repo[g] = reg(g).repo[g] /\ m.want[g] = reg(g).want[g]
        /\ m.act[g] = reg(g).act[g]
    BY <1>10, <2>1, Zenon
  <2>3. /\ reg(g).repo[g] = [eh |-> g, mask |-> {"READ", "WRITE"}]
        /\ reg(g).want[g] = Want({"READ", "WRITE"})
        /\ reg(g).act[g] = Ready(n.sk[g]) \cap Want({"READ", "WRITE"})
    BY <1>2, Zenon
  <2> QED BY <2>2, <2>3, Zenon
<1>12. ASSUME NEW g \in Fds, g \notin new
       PROVE  /\ m.repo[g] = n.repo[g] /\ m.want[g] = n.want[g]
              /\ m.act[g] = n.act[g]
  BY <1>3, <1>10, <1>12, Zenon
<1> QED BY <1>8, <1>9, <1>11, <1>12, Zenon

\* CFSAcceptorTcp::OnEpollInput.
LEMMA AcceptKeeps ==
  ASSUME TypeOK, Owned, NEW f \in Fds, net.repo[f].eh \in Acceptors,
         AcceptorOnInput(f), acc' = acc, BatchKept(f)
  PROVE  Owned' /\ Core' /\ faults' = faults
<1>0. Core /\ AcceptorHas(f)
  BY CoreHolds, SlotTells, Zenon DEF Owned
<1>1. PICK new \in SUBSET FreeFds, k \in 0..net.sk[f].rx :
        /\ net' = Open_t([net EXCEPT !.sk =
                    [g \in Fds |-> IF g \in new THEN [st |-> "connected", rx |-> 0]
                         ELSE IF g = f THEN [net.sk[f] EXCEPT !.rx = @ - k]
                         ELSE net.sk[g]]], new)
        /\ trp' = [g \in Fds |-> IF g \in new THEN "open" ELSE trp[g]]
        /\ con' = con /\ faults' = faults
  BY Zenon DEF AcceptorOnInput
<1>2. PICK sk : sk =
        [g \in Fds |-> IF g \in new THEN [st |-> "connected", rx |-> 0]
                       ELSE IF g = f THEN [net.sk[f] EXCEPT !.rx = @ - k]
                       ELSE net.sk[g]]
  BY Zenon
<1>3. net \in NetType /\ net.sk[f] \in Sock /\ net.sk \in [Fds -> Sock]
  BY <1>0, Fields DEF Core
<1>4. PICK s : s = [net.sk[f] EXCEPT !.rx = @ - k]
  BY Zenon
<1>5. s \in Sock /\ s.st = "listening"
  <2>1. net.sk[f].st = "listening"
    BY <1>0, Zenon DEF AcceptorHas
  <2>2. net.sk[f].rx - k \in 0..MaxUnread
    BY <1>3, BoundsAssumption DEF Sock
  <2> QED BY <1>3, <1>4, <2>1, <2>2 DEF Sock
<1>6. new \in SUBSET Fds /\ f \notin new /\ \A g \in new : FreeSlot(g)
  <2>1. \A g \in new : g \in Fds /\ net.sk[g].st = "closed"
    BY Zenon DEF FreeFds
  <2>2. \A g \in new : FreeSlot(g)
    BY <2>1, SlotTells, Zenon DEF Owned
  <2>3. f \notin new
    BY <1>0, <2>1 DEF AcceptorHas
  <2> QED BY <2>1, <2>2, <2>3, Zenon
<1>7. PICK c : c = [st |-> "connected", rx |-> 0]
  BY Zenon
<1>8. c \in Sock /\ c.st # "closed"
  BY <1>7, BoundsAssumption DEF Sock, States
<1>9. sk = [g \in Fds |-> IF g \in new THEN c ELSE IF g = f THEN s ELSE net.sk[g]]
  BY <1>2, <1>4, <1>7, Zenon
<1>10. /\ sk \in [Fds -> Sock] /\ sk[f] = s /\ \A g \in new : sk[g] = c
       /\ \A g \in Fds : g \notin new /\ g # f => sk[g] = net.sk[g]
  <2>1. sk \in [Fds -> Sock]
    BY <1>3, <1>5, <1>8, <1>9
  <2> QED BY <1>6, <1>9, <2>1, Zenon
<1>11. PICK n : n = [repo |-> net.repo, want |-> net.want, act |-> net.act, sk |-> sk]
  BY Zenon
<1>12. SetSk(net, sk) = n
  BY <1>3, <1>11, Fields, PutSk DEF Net
<1>13. net' = Open_t(n, new)
  BY <1>1, <1>2, <1>12, Zenon DEF SetSk
<1>14. /\ n \in NetType /\ n.repo = net.repo /\ n.want = net.want
       /\ n.act = net.act /\ n.sk = sk
  <2>1. /\ net.repo \in [Fds -> Entry] /\ net.want \in [Fds -> SUBSET Filters]
        /\ net.act \in [Fds -> SUBSET Filters]
    BY <1>3, Fields
  <2>2. n \in NetType
    BY <1>10, <1>11, <2>1, Made
  <2> QED BY <1>11, <2>2, Zenon
<1>15. \A g \in new : net.repo[g].eh = None
  BY <1>6, SlotKinds, Zenon
<1>16. /\ net' \in NetType /\ net'.sk = sk
       /\ \A g \in new :
            /\ net'.repo[g] = [eh |-> g, mask |-> {"READ", "WRITE"}]
            /\ net'.want[g] = Want({"READ", "WRITE"})
            /\ net'.act[g] = Ready(sk[g]) \cap Want({"READ", "WRITE"})
       /\ \A g \in Fds : g \notin new =>
            /\ net'.repo[g] = net.repo[g] /\ net'.want[g] = net.want[g]
            /\ net'.act[g] = net.act[g]
  <2>1. \A g \in new : n.repo[g].eh = None
    BY <1>14, <1>15, Zenon
  <2>2. PICK m : m = Open_t(n, new)
    BY Zenon
  <2>3. /\ m \in NetType /\ m.sk = n.sk
        /\ \A g \in new :
             /\ m.repo[g] = [eh |-> g, mask |-> {"READ", "WRITE"}]
             /\ m.want[g] = Want({"READ", "WRITE"})
             /\ m.act[g] = Ready(n.sk[g]) \cap Want({"READ", "WRITE"})
        /\ \A g \in Fds : g \notin new =>
             /\ m.repo[g] = n.repo[g] /\ m.want[g] = n.want[g]
             /\ m.act[g] = n.act[g]
    BY <1>6, <1>14, <2>1, <2>2, OpenIs
  <2> QED BY <1>13, <1>14, <2>2, <2>3, Zenon
<1>17. \A g \in Fds : trp'[g] = IF g \in new THEN "open" ELSE trp[g]
  BY <1>1, Zenon
<1>18. trp' \in [Fds -> {"none", "held", "open", "cut"}]
  BY <1>0, <1>1, Zenon DEF Core
<1>19. ASSUME NEW d \in Connectors PROVE ConOK(d)'
  <2>1. ConOK(d) /\ (con[d].fd = 0 \/ con[d].fd \in Fds)
    BY <1>0, Zenon DEF Owned, Core, ConType
  <2>2. con[d].fd # 0 => con[d].fd \notin new
    BY <1>15, <2>1, Kinds, Zenon DEF ConOK
  <2>3. con[d].fd # 0 => net'.repo[con[d].fd] = net.repo[con[d].fd]
    BY <1>16, <2>1, <2>2, Zenon
  <2> QED BY <1>1, <2>1, <2>3 DEF ConOK
<1>20. ASSUME NEW a \in Acceptors PROVE AccOK(a)'
  <2>1. AccOK(a) /\ (acc[a] = 0 \/ acc[a] \in Fds)
    BY <1>0, Zenon DEF Owned, Core
  <2>2. acc[a] # 0 => acc[a] \notin new
    BY <1>15, <2>1, Kinds, Zenon DEF AccOK
  <2>3. acc[a] # 0 => net'.repo[acc[a]] = net.repo[acc[a]]
    BY <1>16, <2>1, <2>2, Zenon
  <2> QED BY <2>1, <2>3 DEF AccOK
<1>21. ASSUME NEW g \in new PROVE SlotOK(g)' /\ WatchOK(g)' /\ EdgeOK(g)'
  <2>0. g \in Fds
    BY <1>6, Zenon
  <2>1. /\ net'.repo[g] = [eh |-> g, mask |-> {"READ", "WRITE"}]
        /\ net'.want[g] = Want({"READ", "WRITE"})
        /\ net'.act[g] = Ready(c) \cap Want({"READ", "WRITE"})
        /\ net'.sk[g] = c /\ trp'[g] = "open"
    BY <2>0, <1>10, <1>16, <1>17, Zenon
  <2>2. net'.repo[g].eh = g /\ net'.repo[g].mask = {"READ", "WRITE"}
    <3>1. PICK e : e = net'.repo[g]
      BY Zenon
    <3>2. e = [eh |-> g, mask |-> {"READ", "WRITE"}]
      BY <2>1, <3>1, Zenon
    <3>3. e.eh = g /\ e.mask = {"READ", "WRITE"}
      BY <3>2
    <3> QED BY <3>1, <3>3, Zenon
  <2>3. SlotOK(g)'
    BY <1>8, <2>1, Zenon DEF SlotOK, OpenSlot
  <2>4. WatchOK(g)'
    BY <2>1, <2>2, Zenon DEF WatchOK
  <2>5. "IN" \in Ready(c) => "IN" \in net'.act[g]
    BY <2>1, WantIs, Zenon
  <2>6. EdgeOK(g)'
    BY <2>0, <2>1, <2>2, <2>5, Kinds, Zenon DEF EdgeOK, Pending
  <2> QED BY <2>3, <2>4, <2>6, Zenon
<1>22. ASSUME NEW g \in Fds, g \notin new, g # f
       PROVE  SlotOK(g)' /\ WatchOK(g)' /\ EdgeOK(g)'
  <2>1. /\ net'.repo[g] = net.repo[g] /\ net'.want[g] = net.want[g]
        /\ net'.act[g] = net.act[g] /\ net'.sk[g] = net.sk[g] /\ trp'[g] = trp[g]
    BY <1>10, <1>16, <1>17, <1>22, Zenon
  <2>2. SlotOK(g) /\ WatchOK(g) /\ EdgeOK(g)
    BY Zenon DEF Owned
  <2>3. SlotOK(g)'
    BY <1>1, <2>1, <2>2, Zenon DEF SlotOK, FreeSlot, CutSlot, OpenSlot, ConnectSlot,
                                  ListenSlot
  <2>4. WatchOK(g)'
    BY <2>1, <2>2, Zenon DEF WatchOK
  <2>5. "IN" \in Filters /\ "OUT" \in Filters
    BY DEF Filters
  <2>6. EdgeOK(g)'
    BY <1>22, <2>1, <2>2, <2>5, Zenon DEF EdgeOK, Pending, BatchKept
  <2> QED BY <2>3, <2>4, <2>6, Zenon
<1>23. SlotOK(f)' /\ WatchOK(f)' /\ EdgeOK(f)'
  <2>1. /\ net'.repo[f] = net.repo[f] /\ net'.want[f] = net.want[f]
        /\ net'.act[f] = net.act[f] /\ net'.sk[f] = s /\ trp'[f] = trp[f]
    BY <1>6, <1>10, <1>16, <1>17, Zenon
  <2>2. WatchOK(f)'
    BY <2>1, Zenon DEF WatchOK, Owned
  <2>3. SlotOK(f)'
    BY <1>0, <1>5, <2>1, Zenon DEF SlotOK, ListenSlot, AcceptorHas
  <2>4. EdgeOK(f)'
    BY <2>1, Kinds, Zenon DEF EdgeOK
  <2> QED BY <2>2, <2>3, <2>4, Zenon
<1>24. Owned'
  BY <1>19, <1>20, <1>21, <1>22, <1>23, Zenon DEF Owned
<1> QED BY <1>0, <1>1, <1>16, <1>18, <1>24, Zenon DEF Core

---------------------------------------------------------------------------
(* The loop.                                                               *)

\* The types of all variables from those of the two halves.
LEMMA TypeFrom ==
  ASSUME Core', Rest' PROVE TypeOK'
<1>1. faults' \subseteq {"FalseSuccess", "AcceptorClosed"}
  BY Zenon DEF Rest
<1> QED BY <1>1, Zenon DEF Core, Rest, TypeOK, ConType

\* An event of descriptor f leaves the batch.
LEMMA EventTaken ==
  ASSUME NEW f, NEW x, batch' = batch \ {<<f, x>>}
  PROVE  BatchKept(f)
BY DEF BatchKept

\* Nothing but the batch changes, and it only loses the pipe's event.
LEMMA QuietKeeps ==
  ASSUME Owned, net' = net, con' = con, acc' = acc, trp' = trp,
         batch' = batch \/ batch' = batch \ {Pipe}
  PROVE  Owned'
<1>1. \A f \in Fds : \A x : <<f, x>> \in batch => <<f, x>> \in batch'
  BY Kinds DEF Pipe
<1>2. ASSUME NEW f \in Fds PROVE SlotOK(f)' /\ WatchOK(f)' /\ EdgeOK(f)'
  <2>1. SlotOK(f) /\ WatchOK(f) /\ EdgeOK(f)
    BY Zenon DEF Owned
  <2>2. SlotOK(f)'
    BY <2>1, Zenon DEF SlotOK, FreeSlot, CutSlot, OpenSlot, ConnectSlot, ListenSlot
  <2>3. EdgeOK(f)'
    BY <1>1, <2>1, Zenon DEF EdgeOK, Pending
  <2> QED BY <2>1, <2>2, <2>3, Zenon DEF WatchOK
<1> QED BY <1>2, Zenon DEF Owned, ConOK, AccOK

\* CFSReactorBase::ProcessHandleEvent on an event that has left the batch.
LEMMA ProcessKeeps ==
  ASSUME TypeOK, Owned, NEW f \in Fds, NEW filter \in Filters,
         ProcessHandleEvent(f, filter), acc' = acc,
         batch' = batch \ {<<f, filter>>}
  PROVE  Owned' /\ Core' /\ faults' \subseteq faults \cup {"FalseSuccess"}
<1> DEFINE h == net.repo[f].eh
           actual == net.repo[f].mask \cap Signalled(filter)
           close == filter = "OUT" /\ ~IsConnected(f)
<1>0. SlotOK(f) /\ WatchOK(f) /\ EdgeOK(f) /\ BatchKept(f) /\ Core
  BY EventTaken, CoreHolds, Zenon DEF Owned
<1>1. ASSUME h # None, close, RemoveAndClose(f)
      PROVE  Owned' /\ Core' /\ faults' \subseteq faults \cup {"FalseSuccess"}
  <2>1. h \notin Acceptors
    <3>1. net.sk[f].st \in {"closed", "failed"}
      BY <1>1, Zenon DEF IsConnected
    <3>2. net.sk[f].st # "listening"
      BY <3>1
    <3> QED BY <1>0, <3>2, SlotTells, Zenon DEF AcceptorHas
  <2>2. Owned' /\ Core' /\ faults' = faults
    BY <1>0, <1>1, <2>1, RemoveKeeps, Zenon
  <2> QED BY <2>2, Zenon
<1>2. ASSUME "CONNECT" \in actual, ConnectSucceeds(net, h, f)
      PROVE  Owned' /\ Core' /\ faults' \subseteq faults \cup {"FalseSuccess"}
  <2>1. h \in Connectors /\ con[h].fd = f
    BY <1>0, <1>2, SlotTells, Zenon DEF ConnectorHas
  <2>2. PICK c \in Connectors : c = h
    BY <2>1, Zenon
  <2>3. con[c].fd = f /\ ConnectSucceeds(net, c, f)
    BY <1>2, <2>1, <2>2, Zenon
  <2> QED BY <1>0, <2>3, SucceedsKeeps
<1>3. ASSUME "ACCEPT" \in actual, AcceptorOnInput(f)
      PROVE  Owned' /\ Core' /\ faults' \subseteq faults \cup {"FalseSuccess"}
  <2>1. h \in Acceptors
    BY <1>0, <1>3, SlotTells, Zenon
  <2>2. Owned' /\ Core' /\ faults' = faults
    BY <1>0, <1>3, <2>1, AcceptKeeps
  <2> QED BY <2>2
<1>4. ASSUME "READ" \in actual, TransportOnInput(f)
      PROVE  Owned' /\ Core' /\ faults' \subseteq faults \cup {"FalseSuccess"}
  <2>1. h \in Fds
    BY <1>0, <1>4, SlotTells, Zenon
  <2>2. Owned' /\ Core' /\ faults' = faults
    BY <1>0, <1>4, <2>1, InputKeeps, Zenon
  <2> QED BY <2>2, Zenon
<1>5. ASSUME UNCHANGED <<net, con, trp, faults>>,
             \/ h = None
             \/ ~close /\ actual = {}
             \/ ~close /\ "WRITE" \in actual
      PROVE  Owned' /\ Core' /\ faults' \subseteq faults \cup {"FalseSuccess"}
  <2>0. net' = net /\ con' = con /\ trp' = trp /\ faults' = faults
    BY <1>5, Zenon
  <2>1. net \in NetType
    BY <1>0, Zenon DEF Core
  <2>2. net' = At(net, f, net.repo[f], net.want[f], net.act[f], net.sk[f])
    BY <2>0, <2>1, AtSame, Zenon
  <2>3. h \notin Connectors
    <3>1. SUFFICES ASSUME h \in Connectors PROVE FALSE
      BY Zenon
    <3>2. net.repo[f] = [eh |-> h, mask |-> {"CONNECT"}]
      BY <1>0, <3>1, SlotTells, Zenon DEF ConnectorHas
    <3>3. net.repo[f].mask = {"CONNECT"}
      BY <3>2
    <3>4. "CONNECT" \in actual /\ "WRITE" \notin actual
      BY <3>3, Zenon DEF Signalled
    <3> QED BY <1>5, <3>1, <3>4, Kinds, Zenon
  <2>4. h \in Fds => filter = "OUT"
    <3>1. SUFFICES ASSUME h \in Fds, filter = "IN" PROVE FALSE
      BY Zenon DEF Filters
    <3>2. net.repo[f].mask = {"READ", "WRITE"}
      BY <1>0, <3>1, SlotTells, SlotKinds, Zenon
    <3>3. "READ" \in actual /\ "WRITE" \notin actual
      BY <3>1, <3>2, Zenon DEF Signalled
    <3> QED BY <1>5, <3>1, <3>3, Kinds, Zenon
  <2>5. EdgeOK(f)'
    <3>1. filter = "OUT" => (<<f, "IN">> \in batch => <<f, "IN">> \in batch')
      BY Zenon
    <3> QED BY <1>0, <2>0, <2>3, <2>4, <3>1, Zenon DEF EdgeOK, Pending
  <2>6. WatchOK(f)' /\ SlotOK(f)'
    <3>1. WatchOK(f)'
      BY <1>0, <2>0, Zenon DEF WatchOK
    <3>2. SlotOK(f)'
      BY <1>0, <2>0, Zenon DEF SlotOK, FreeSlot, CutSlot, OpenSlot, ConnectSlot,
                              ListenSlot
    <3> QED BY <3>1, <3>2
  <2>7. Owned'
    BY <1>0, <2>0, <2>2, <2>5, <2>6, SameOwner, Zenon
  <2>8. Core'
    BY <1>0, <2>0, Zenon DEF Core
  <2> QED BY <2>0, <2>7, <2>8
<1> QED BY <1>1, <1>2, <1>3, <1>4, <1>5, Zenon DEF ProcessHandleEvent

\* RunEventLoop: an epoll event goes to its handler.
LEMMA KeepsDispatch ==
  ASSUME NInv, DispatchHandler PROVE NInv'
<1>0. TypeOK /\ Owned /\ Rest
  BY Zenon DEF NInv
<1>1. PICK e \in batch \ {Pipe} : /\ batch' = batch \ {e}
                                  /\ ProcessHandleEvent(e[1], e[2])
  BY Zenon DEF DispatchHandler
<1>2. PICK f \in Fds, filter \in Filters : e = <<f, filter>>
  BY <1>0 DEF Rest
<1>3. ProcessHandleEvent(f, filter) /\ batch' = batch \ {<<f, filter>>}
  BY <1>1, <1>2, Zenon
<1>4. /\ phase = "batch" /\ phase' = phase /\ acc' = acc /\ notes' = notes
      /\ listens' = listens
  BY Zenon DEF DispatchHandler
<1>5. Owned' /\ Core' /\ faults' \subseteq faults \cup {"FalseSuccess"}
  BY <1>0, <1>3, <1>4, ProcessKeeps, Zenon
<1>6. Rest'
  <2>1. batch' \subseteq (Fds \X Filters) \cup {Pipe}
    BY <1>0, <1>1, Zenon DEF Rest
  <2>2. faults' \subseteq {"FalseSuccess"}
    BY <1>0, <1>5, Zenon DEF Rest
  <2>3. phase' \notin {"timers", "queue"}
    BY <1>4, Zenon
  <2> QED BY <1>0, <1>4, <2>1, <2>2, <2>3, Zenon DEF Rest
<1> QED BY <1>5, <1>6, TypeFrom, Zenon DEF NInv

\* A list without its head.
LEMMA TailKept ==
  ASSUME NEW S, NEW s \in Seq(S), s # <<>>
  PROVE  Tail(s) \in Seq(S)
OBVIOUS

\* CFSReactorNotifyPipe::OnInput of a record that names a descriptor.
LEMMA KeepsNote ==
  ASSUME NInv, DispatchNote PROVE NInv'
<1>0. TypeOK /\ Owned /\ Rest /\ Core
  BY CoreHolds, Zenon DEF NInv
<1>1. /\ phase = "batch" /\ phase' = phase /\ batch' = batch \ {Pipe}
      /\ notes # <<>> /\ notes' = Tail(notes)
      /\ net' = net /\ con' = con /\ acc' = acc /\ trp' = trp
      /\ listens' = listens /\ faults' = faults
  BY Zenon DEF DispatchNote
<1>2. Owned'
  BY <1>0, <1>1, QuietKeeps, Zenon
<1>3. Core'
  BY <1>0, <1>1, Zenon DEF Core
<1>4. Rest'
  <2>1. notes' \in Seq(Fds)
    BY <1>0, <1>1, TailKept, Zenon DEF Rest
  <2>2. batch' \subseteq (Fds \X Filters) \cup {Pipe}
    BY <1>0, <1>1, Zenon DEF Rest
  <2>3. phase' \notin {"timers", "queue"}
    BY <1>1, Zenon
  <2> QED BY <1>0, <1>1, <2>1, <2>2, <2>3, Zenon DEF Rest
<1> QED BY <1>2, <1>3, <1>4, TypeFrom, Zenon DEF NInv

\* The event queue is entered and left.
LEMMA KeepsQueue ==
  ASSUME NInv, DispatchQueue \/ QueueDone PROVE NInv'
<1>0. TypeOK /\ Owned /\ Rest /\ Core
  BY CoreHolds, Zenon DEF NInv
<1>1. /\ net' = net /\ con' = con /\ acc' = acc /\ trp' = trp
      /\ notes' = notes /\ listens' = listens /\ faults' = faults
      /\ batch' = batch \/ batch' = batch \ {Pipe}
  BY Zenon DEF DispatchQueue, QueueDone
<1>2. Owned'
  BY <1>0, <1>1, QuietKeeps, Zenon
<1>3. Core'
  BY <1>0, <1>1, Zenon DEF Core
<1>4. /\ phase' \in {"timers", "batch", "queue", "midqueue"}
      /\ phase' \in {"timers", "queue"} => batch' = {}
  <2>1. CASE DispatchQueue
    BY <2>1 DEF DispatchQueue
  <2>2. CASE QueueDone
    BY <1>0, <2>2, Zenon DEF QueueDone, Rest
  <2> QED BY <2>1, <2>2, Zenon
<1>5. batch' \subseteq (Fds \X Filters) \cup {Pipe}
  BY <1>0, <1>1, Zenon DEF Rest
<1>6. Rest'
  BY <1>0, <1>1, <1>4, <1>5, Zenon DEF Rest
<1> QED BY <1>2, <1>3, <1>6, TypeFrom, Zenon DEF NInv

\* The events of a batch are the active filters of the descriptors.
LEMMA Events ==
  ASSUME NEW S, NEW a, NEW u, u = UNION {{f} \X a[f] : f \in S}
  PROVE  /\ \A f \in S : \A x \in a[f] : <<f, x>> \in u
         /\ \A e \in u : \E f \in S : \E x \in a[f] : e = <<f, x>>
<1>1. ASSUME NEW f \in S, NEW x \in a[f] PROVE <<f, x>> \in u
  <2>1. {f} \X a[f] \in {{g} \X a[g] : g \in S}
    BY Zenon
  <2>2. <<f, x>> \in {f} \X a[f]
    BY Zenon
  <2> QED BY <2>1, <2>2, Zenon
<1>2. ASSUME NEW e \in u PROVE \E f \in S : \E x \in a[f] : e = <<f, x>>
  <2>1. PICK f \in S : e \in {f} \X a[f]
    BY Zenon
  <2> QED BY <2>1
<1> QED BY <1>1, <1>2, Zenon

\* vos_epoll_wait: what fired moves from the kqueue to the batch.
LEMMA KeepsWait ==
  ASSUME NInv, EpollWait PROVE NInv'
<1>0. TypeOK /\ Owned /\ Rest /\ Core /\ net \in NetType
  BY CoreHolds, Zenon DEF NInv, Core
<1>1. /\ phase = "timers" /\ phase' = "batch"
      /\ con' = con /\ acc' = acc /\ trp' = trp
      /\ notes' = notes /\ listens' = listens /\ faults' = faults
  BY Zenon DEF EpollWait
<1>2. PICK pipe \in {{}, {Pipe}} :
        batch' = pipe \cup UNION {{f} \X net.act[f] : f \in Fds}
  BY Zenon DEF EpollWait
<1>3. PICK none : none = [f \in Fds |-> {}]
  BY Zenon
<1>4. net' = SetAct(net, none)
  BY <1>3, Zenon DEF EpollWait, SetAct
<1>5. net' = [repo |-> net.repo, want |-> net.want, act |-> none, sk |-> net.sk]
  <2>1. net = Net(net.repo, net.want, net.act, net.sk)
    BY <1>0, Fields, Zenon DEF Net
  <2>2. SetAct(net, none) = Net(net.repo, net.want, none, net.sk)
    BY <2>1, PutAct
  <2> QED BY <1>4, <2>2, Zenon DEF Net
<1>6. /\ net'.repo = net.repo /\ net'.want = net.want /\ net'.act = none
      /\ net'.sk = net.sk
  BY <1>5, Zenon
<1>7. net' \in NetType
  <2>1. none \in [Fds -> SUBSET Filters]
    BY <1>3, Zenon
  <2>2. /\ net.repo \in [Fds -> Entry] /\ net.want \in [Fds -> SUBSET Filters]
        /\ net.sk \in [Fds -> Sock]
    BY <1>0, Fields, Zenon
  <2> QED BY <1>5, <2>1, <2>2, Made
<1>u. PICK u : u = UNION {{f} \X net.act[f] : f \in Fds}
  BY Zenon
<1>b. batch' = pipe \cup u
  BY <1>2, <1>u, Zenon
<1>c. /\ \A f \in Fds : \A x \in net.act[f] : <<f, x>> \in u
      /\ \A e \in u : \E f \in Fds : \E x \in net.act[f] : e = <<f, x>>
  BY <1>u, Events
<1>8. \A f \in Fds : \A x : x \in net.act[f] => <<f, x>> \in batch'
  BY <1>b, <1>c, Zenon
<1>9. batch' \subseteq (Fds \X Filters) \cup {Pipe}
  <2>1. \A f \in Fds : net.act[f] \in SUBSET Filters
    BY <1>0, Fields
  <2>2. u \subseteq Fds \X Filters
    BY <1>c, <2>1
  <2> QED BY <1>b, <2>2, Zenon
<1>10. batch = {}
  BY <1>0, <1>1, Zenon DEF Rest
<1>11. ASSUME NEW f \in Fds PROVE SlotOK(f)' /\ WatchOK(f)' /\ EdgeOK(f)'
  <2>1. SlotOK(f) /\ WatchOK(f) /\ EdgeOK(f)
    BY <1>0, Zenon DEF Owned
  <2>2. net'.act[f] = {}
    BY <1>3, <1>6, Zenon
  <2>3. SlotOK(f)'
    BY <1>1, <1>6, <2>1, Zenon DEF SlotOK, FreeSlot, CutSlot, OpenSlot, ConnectSlot,
                                  ListenSlot
  <2>4. WatchOK(f)'
    BY <1>6, <2>1, <2>2, Zenon DEF WatchOK
  <2>5. EdgeOK(f)'
    BY <1>6, <1>8, <1>10, <2>1, Zenon DEF EdgeOK, Pending
  <2> QED BY <2>3, <2>4, <2>5, Zenon
<1>12. Owned'
  BY <1>0, <1>1, <1>6, <1>11, Zenon DEF Owned, ConOK, AccOK
<1>13. Core'
  BY <1>0, <1>1, <1>7, Zenon DEF Core
<1>14. Rest'
  <2>1. /\ phase' \in {"timers", "batch", "queue", "midqueue"}
        /\ phase' \notin {"timers", "queue"}
    BY <1>1
  <2> QED BY <1>0, <1>1, <1>9, <2>1, Zenon DEF Rest
<1> QED BY <1>12, <1>13, <1>14, TypeFrom, Zenon DEF NInv

---------------------------------------------------------------------------
(* The timers and the requests.                                            *)

\* The fields of a connector, set one at a time.
SetSt(r, p) == [r EXCEPT !.st = p]
SetFd(r, p) == [r EXCEPT !.fd = p]
SetTimer(r, p) == [r EXCEPT !.timer = p]
Rec(a, b, t, k) == [st |-> a, fd |-> b, timer |-> t, told |-> k]

\* The fields of a connector updated alone.
LEMMA PutSt ==
  ASSUME NEW a, NEW b, NEW t, NEW k, NEW p
  PROVE  /\ SetSt(Rec(a, b, t, k), p) = Rec(p, b, t, k)
         /\ SetFd(Rec(a, b, t, k), p) = Rec(a, p, t, k)
         /\ SetTimer(Rec(a, b, t, k), p) = Rec(a, b, p, k)
<1>1. SetSt(Rec(a, b, t, k), p) = Rec(p, b, t, k)
  BY SMTT(30) DEF SetSt, Rec
<1>2. SetFd(Rec(a, b, t, k), p) = Rec(a, p, t, k)
  BY SMTT(30) DEF SetFd, Rec
<1>3. SetTimer(Rec(a, b, t, k), p) = Rec(a, b, p, k)
  BY SMTT(30) DEF SetTimer, Rec
<1> QED BY <1>1, <1>2, <1>3, Zenon

\* The updates of a connector in the requests.
ConPut(c, a, b, t) == [con EXCEPT ![c].st = a, ![c].fd = b, ![c].timer = t]
ConErr(c) == [con EXCEPT ![c].st = "busy", ![c].timer = "error"]

\* AsycConnect and CancelConnect write the connector as a whole.
LEMMA ConPutIs ==
  ASSUME TypeOK, NEW c \in Connectors, NEW a, NEW b, NEW t
  PROVE  ConPut(c, a, b, t) = [con EXCEPT ![c] = Rec(a, b, t, con[c].told)]
<1>1. con \in [Connectors -> ConType]
  BY CoreHolds, Zenon DEF Core
<1>2. PICK x : x = con[c]
  BY Zenon
<1>3. x = Rec(x.st, x.fd, x.timer, x.told)
  BY <1>1, <1>2 DEF ConType, Rec
<1>4. SetTimer(SetFd(SetSt(x, a), b), t) = Rec(a, b, t, x.told)
  BY <1>3, PutSt
<1>5. PICK d : d = [con EXCEPT ![c].st = a]
  BY Zenon
<1>6. PICK e : e = [d EXCEPT ![c].fd = b]
  BY Zenon
<1>7. ConPut(c, a, b, t) = [e EXCEPT ![c].timer = t]
  BY <1>5, <1>6, Zenon DEF ConPut
<1>8. d = [con EXCEPT ![c] = SetSt(x, a)] /\ d[c] = SetSt(x, a)
  BY <1>1, <1>2, <1>5 DEF SetSt
<1>9. e = [con EXCEPT ![c] = SetFd(SetSt(x, a), b)] /\ e[c] = SetFd(SetSt(x, a), b)
  BY <1>1, <1>6, <1>8, Zenon DEF SetFd
<1>10. [e EXCEPT ![c].timer = t] = [con EXCEPT ![c] = SetTimer(SetFd(SetSt(x, a), b), t)]
  BY <1>1, <1>9, Zenon DEF SetTimer
<1> QED BY <1>2, <1>4, <1>7, <1>10

\* So does an AsycConnect that fails at once.
LEMMA ConErrIs ==
  ASSUME TypeOK, NEW c \in Connectors
  PROVE  ConErr(c) = [con EXCEPT ![c] = Rec("busy", con[c].fd, "error", con[c].told)]
<1>1. con \in [Connectors -> ConType]
  BY CoreHolds, Zenon DEF Core
<1>2. PICK x : x = con[c]
  BY Zenon
<1>3. x = Rec(x.st, x.fd, x.timer, x.told)
  BY <1>1, <1>2 DEF ConType, Rec
<1>4. SetTimer(SetSt(x, "busy"), "error") = Rec("busy", x.fd, "error", x.told)
  BY <1>3, PutSt
<1>5. PICK d : d = [con EXCEPT ![c].st = "busy"]
  BY Zenon
<1>7. ConErr(c) = [d EXCEPT ![c].timer = "error"]
  BY <1>5, Zenon DEF ConErr
<1>8. d = [con EXCEPT ![c] = SetSt(x, "busy")] /\ d[c] = SetSt(x, "busy")
  BY <1>1, <1>2, <1>5, Zenon DEF SetSt
<1>10. [d EXCEPT ![c].timer = "error"]
         = [con EXCEPT ![c] = SetTimer(SetSt(x, "busy"), "error")]
  BY <1>1, <1>8, Zenon DEF SetTimer
<1> QED BY <1>2, <1>4, <1>7, <1>10, Zenon

\* The loop does not move.
LEMMA RestSame ==
  ASSUME Rest, notes' = notes, phase' = phase, batch' = batch,
         listens' = listens, faults' = faults
  PROVE  Rest'
BY Zenon DEF Rest

\* A batch that stays keeps its events.
LEMMA SameBatch ==
  ASSUME NEW f, batch' = batch PROVE BatchKept(f)
BY Zenon DEF BatchKept

\* CFSConnectorWrapper::OnTimeout.
LEMMA KeepsTimeout ==
  ASSUME NInv, NEW c \in Connectors, OnTimeout(c) PROVE NInv'
<1>0. TypeOK /\ Owned /\ Rest /\ Core
  BY CoreHolds, Zenon DEF NInv
<1>1. /\ con[c].timer # "none" /\ ConnectFails(net, c) /\ acc' = acc
      /\ notes' = notes /\ phase' = phase /\ batch' = batch /\ listens' = listens
      /\ faults' = faults
  BY Zenon DEF OnTimeout, ConnectFails
<1>2. con[c].st = "busy" /\ ConOK(c)
  BY <1>0, <1>1, Zenon DEF Owned, ConOK
<1>3. Owned' /\ Core'
  <2>1. CASE con[c].fd = 0
    <3>1. con[c].told = 0
      <4>1. "busy" # "done"
        OBVIOUS
      <4> QED BY <1>2, <4>1, Zenon DEF ConOK
    <3>2. PICK v \in ConType : /\ v.fd = 0 /\ v.st = "done" /\ v.timer = "none"
                               /\ Answered(c) = [con EXCEPT ![c] = v]
      BY <1>0, <3>1, AnsweredIs, Zenon
    <3>3. net' = net /\ trp' = trp /\ con' = [con EXCEPT ![c] = v]
      BY <1>1, <2>1, <3>2, Zenon DEF ConnectFails, Close_i, LetGo
    <3> QED BY <1>0, <1>1, <2>1, <3>2, <3>3, EndsWithout, Zenon
  <2>2. CASE con[c].fd # 0
    <3>1. PICK f \in Fds : con[c].fd = f
      BY <1>0, <2>2 DEF Core, ConType
    <3>2. BatchKept(f)
      BY <1>1, SameBatch, Zenon
    <3> QED BY <1>0, <1>1, <3>1, <3>2, FailsKeeps
  <2> QED BY <2>1, <2>2, Zenon
<1>4. Rest'
  BY <1>0, <1>1, RestSame, Zenon
<1> QED BY <1>3, <1>4, TypeFrom, Zenon DEF NInv

\* The destructor of a transport nobody refers to.
LEMMA KeepsDelete ==
  ASSUME NInv, NEW f \in Fds, DeleteTransport(f) PROVE NInv'
<1>0. TypeOK /\ Owned /\ Rest /\ Core /\ net \in NetType
  BY CoreHolds, Zenon DEF NInv, Core
<1>1. /\ trp[f] = "cut" /\ net' = CloseFd(net, f) /\ trp' = [trp EXCEPT ![f] = "none"]
      /\ con' = con /\ acc' = acc
      /\ notes' = notes /\ phase' = phase /\ batch' = batch /\ listens' = listens
      /\ faults' = faults
  BY Zenon DEF DeleteTransport
<1>2. CutSlot(f)
  BY <1>0, <1>1, SlotTells, Zenon DEF Owned
<1>3. net.repo[f] = Cleared /\ net.repo[f].eh = None
  BY <1>2, SlotKinds, Zenon DEF CutSlot
<1>4. net' = At(net, f, Cleared, {}, {}, Closed)
  BY <1>0, <1>1, <1>3, CloseIs
<1>5. OwnersFollow(f) /\ BatchKept(f)
  BY <1>0, <1>1, <1>3, MovesNone, SameBatch
<1>6. Closed.st = "closed" /\ Closed \in Sock
  BY BoundsAssumption DEF Closed, Sock, States
<1>7. Owned'
  BY <1>0, <1>1, <1>4, <1>5, <1>6, SlotLeft, Zenon
<1>8. net' \in NetType
  <2>1. Cleared \in Entry /\ {} \in SUBSET Filters
    BY EntryType
  <2> QED BY <1>0, <1>4, <1>6, <2>1, AtType, Zenon
<1>9. trp' \in [Fds -> {"none", "held", "open", "cut"}]
  BY <1>0, <1>1, Zenon DEF Core
<1>10. Core'
  BY <1>0, <1>1, <1>8, <1>9, Zenon DEF Core
<1>11. Rest'
  BY <1>0, <1>1, RestSame, Zenon
<1> QED BY <1>7, <1>10, <1>11, TypeFrom, Zenon DEF NInv

\* CFSTransportBase::Disconnect.
LEMMA KeepsDisconnect ==
  ASSUME NInv, NEW f \in Fds, Disconnect(f) PROVE NInv'
<1>0. TypeOK /\ Owned /\ Rest /\ Core /\ net \in NetType
  BY CoreHolds, Zenon DEF NInv, Core
<1>1. /\ trp[f] = "open" /\ net' = RemoveHandler(net, f, {"READ", "WRITE"})
      /\ trp' = [trp EXCEPT ![f] = "cut"] /\ con' = con /\ acc' = acc
      /\ notes' = notes /\ phase' = phase /\ batch' = batch /\ listens' = listens
      /\ faults' = faults
  BY Zenon DEF Disconnect
<1>2. OpenSlot(f)
  BY <1>0, <1>1, SlotTells, Zenon DEF Owned
<1>3. /\ net.repo[f].eh = f /\ net.repo[f].mask = {"READ", "WRITE"}
      /\ net.sk[f].st # "closed"
  BY <1>2, SlotKinds, Zenon DEF OpenSlot
<1>4. net' = At(net, f, Cleared, {}, {}, net.sk[f])
  <2>1. net.repo[f].mask # {} /\ net.repo[f].mask \subseteq {"READ", "WRITE"}
    BY <1>3
  <2> QED BY <1>0, <1>1, <2>1, RemoveAll
<1>5. OwnersFollow(f) /\ BatchKept(f)
  BY <1>0, <1>1, <1>3, MovesNone, SameBatch
<1>7. Owned'
  BY <1>0, <1>1, <1>3, <1>4, <1>5, SlotLeft, Zenon
<1>8. net' \in NetType
  <2>1. Cleared \in Entry /\ {} \in SUBSET Filters /\ net.sk[f] \in Sock
    BY <1>0, EntryType, Fields
  <2> QED BY <1>0, <1>4, <2>1, AtType, Zenon
<1>9. trp' \in [Fds -> {"none", "held", "open", "cut"}]
  BY <1>0, <1>1, Zenon DEF Core
<1>10. Core'
  BY <1>0, <1>1, <1>8, <1>9, Zenon DEF Core
<1>11. Rest'
  BY <1>0, <1>1, RestSame, Zenon
<1> QED BY <1>7, <1>10, <1>11, TypeFrom, Zenon DEF NInv

\* CFSConnectorWrapper::CancelConnect.
LEMMA KeepsCancel ==
  ASSUME NInv, NEW c \in Connectors, CancelConnect(c) PROVE NInv'
<1>0. TypeOK /\ Owned /\ Rest /\ Core
  BY CoreHolds, Zenon DEF NInv
<1>1. /\ con[c].st = "busy" /\ net' = Close_i(net, c) /\ trp' = LetGo(c)
      /\ con' = ConPut(c, "done", 0, "none") /\ acc' = acc
      /\ notes' = notes /\ phase' = phase /\ batch' = batch /\ listens' = listens
      /\ faults' = faults
  BY Zenon DEF CancelConnect, ConPut
<1>2. con[c] \in ConType
  BY <1>0, Zenon DEF Core
<1>3. PICK v : v = Rec("done", 0, "none", con[c].told)
  BY Zenon
<1>4. v \in ConType /\ v.fd = 0 /\ v.st = "done" /\ v.timer = "none"
  BY <1>2, <1>3, Zenon DEF ConType, Rec
<1>5. con' = [con EXCEPT ![c] = v]
  BY <1>0, <1>1, <1>3, ConPutIs
<1>6. Owned' /\ Core'
  <2>1. CASE con[c].fd = 0
    <3>1. net' = net /\ trp' = trp
      BY <1>1, <2>1, Zenon DEF Close_i, LetGo
    <3> QED BY <1>0, <1>1, <1>4, <1>5, <2>1, <3>1, EndsWithout
  <2>2. CASE con[c].fd # 0
    <3>1. PICK f \in Fds : con[c].fd = f
      BY <1>2, <2>2, Zenon DEF ConType
    <3>2. BatchKept(f)
      BY <1>1, SameBatch, Zenon
    <3>3. net' = At(net, f, Cleared, {}, {}, net.sk[f])
      BY <1>0, <1>1, <3>1, CloseIsAt, Zenon
    <3>4. trp' = [trp EXCEPT ![f] = "cut"]
      BY <1>1, <2>2, <3>1, Zenon DEF LetGo
    <3> QED BY <1>0, <1>1, <1>4, <1>5, <3>1, <3>2, <3>3, <3>4, EndsWith, Zenon
  <2> QED BY <2>1, <2>2, Zenon
<1>7. Rest'
  BY <1>0, <1>1, RestSame, Zenon
<1> QED BY <1>6, <1>7, TypeFrom, Zenon DEF NInv

\* The socket that Connect_i leaves behind, and the filters that are active.
LEMMA ConnectIs ==
  ASSUME NEW f \in Fds, NEW c \in Connectors, NEW result, net \in NetType,
         net.repo[f].eh = None
  PROVE  \E x : /\ Connect_i(c, f, result)
                     = At(net, f, [eh |-> c, mask |-> {"CONNECT"}], Want({"CONNECT"}),
                          x, [st |-> result, rx |-> 0])
                /\ Ready([st |-> result, rx |-> 0]) \cap Want({"CONNECT"}) \subseteq x
                /\ x \subseteq Want({"CONNECT"})
<1>1. PICK r, w, s, q : /\ r = [eh |-> c, mask |-> {"CONNECT"}]
                        /\ w = Want({"CONNECT"}) /\ s = [st |-> result, rx |-> 0]
                        /\ q = [st |-> "fresh", rx |-> net.sk[f].rx]
  BY Zenon
<1>2. PICK n1 : n1 = At(net, f, net.repo[f], net.want[f], net.act[f], q)
  BY Zenon
<1>3. StAt(net, f, "fresh") = n1
  BY <1>1, <1>2, SocketIn, Zenon
<1>4. /\ net.repo[f] \in Entry /\ net.want[f] \in SUBSET Filters
      /\ net.act[f] \in SUBSET Filters /\ net.sk[f] \in Sock
  BY Fields, Zenon
<1>5. q \in Sock
  BY <1>1, <1>4 DEF Sock, States
<1>6. n1 \in NetType /\ n1.repo[f] = net.repo[f] /\ n1.sk[f] = q
  <2>1. n1 \in NetType
    BY <1>2, <1>4, <1>5, AtType, Zenon
  <2>2. n1.repo[f] = net.repo[f] /\ n1.sk[f] = q
    BY <1>2, AtHere
  <2> QED BY <2>1, <2>2, Zenon
<1>7. PICK x1 : x1 = Ready(q) \cap w
  BY Zenon
<1>8. PICK n2 : n2 = RegisterHandler(n1, f, c, {"CONNECT"})
  BY Zenon
<1>9. n2 = At(n1, f, r, w, x1, q)
  <2>1. n1.repo[f].eh = None
    BY <1>6, Zenon
  <2>2. n2 = At(n1, f, [eh |-> c, mask |-> {"CONNECT"}], Want({"CONNECT"}),
                Ready(n1.sk[f]) \cap Want({"CONNECT"}), n1.sk[f])
    BY <1>6, <1>8, <2>1, RegisterFree, Zenon
  <2> QED BY <1>1, <1>6, <1>7, <2>2, Zenon
<1>10. n2 = At(net, f, r, w, x1, q)
  BY <1>2, <1>9, AtTwice
<1>11. n2.repo[f] = r /\ n2.want[f] = w /\ n2.act[f] = x1
  BY <1>10, AtHere
<1>12. PICK x : x = x1 \cup (Ready(s) \cap w)
  BY Zenon
<1>13. Connect_i(c, f, result) = Change(n2, f, s)
  BY <1>1, <1>3, <1>8, Zenon DEF Connect_i, StAt
<1>14. n2 \in NetType
  <2>1. r \in Entry /\ w \in SUBSET Filters
    BY <1>1, EntryType, WantType, Zenon
  <2>2. x1 \in SUBSET Filters
    BY <1>7, <2>1
  <2> QED BY <1>5, <1>10, <2>1, <2>2, AtType, Zenon
<1>15. Change(n2, f, s) = At(n2, f, r, w, x, s)
  <2>1. Change(n2, f, s) = At(n2, f, n2.repo[f], n2.want[f],
                              n2.act[f] \cup (Ready(s) \cap n2.want[f]), s)
    BY <1>14, ChangeIs
  <2> QED BY <1>11, <1>12, <2>1, Zenon
<1>16. At(n2, f, r, w, x, s) = At(net, f, r, w, x, s)
  BY <1>10, AtTwice
<1>17. Connect_i(c, f, result) = At(net, f, r, w, x, s)
  BY <1>13, <1>15, <1>16, Zenon
<1>18. Ready(s) \cap w \subseteq x /\ x \subseteq w
  BY <1>7, <1>12, Zenon
<1> QED BY <1>1, <1>17, <1>18, Zenon

\* A list with an element appended.
LEMMA Appended ==
  ASSUME NEW S, NEW s \in Seq(S), NEW e \in S
  PROVE  Append(s, e) \in Seq(S)
OBVIOUS

\* CFSConnectorWrapper::AsycConnect.
LEMMA KeepsConnect ==
  ASSUME NInv, NEW c \in Connectors, AsycConnect(c) PROVE NInv'
<1>0. TypeOK /\ Owned /\ Rest /\ Core /\ net \in NetType
  BY CoreHolds, Zenon DEF NInv, Core
<1>1. /\ con[c].st = "new" /\ acc' = acc
      /\ phase' = phase /\ batch' = batch /\ listens' = listens /\ faults' = faults
  BY Zenon DEF AsycConnect
<1>2. con[c].fd = 0 /\ con[c].told = 0 /\ con[c] \in ConType
  <2>1. "new" # "busy" /\ "new" # "done"
    BY Zenon
  <2>2. ConOK(c)
    BY <1>0, Zenon DEF Owned
  <2>3. con[c] \in ConType
    BY <1>0 DEF Core
  <2> QED BY <1>1, <2>1, <2>2, <2>3, Zenon DEF ConOK
<1>3. ASSUME con' = ConErr(c), UNCHANGED <<net, trp, notes>>
      PROVE  NInv'
  <2>0. net' = net /\ trp' = trp /\ notes' = notes
    BY <1>3, Zenon
  <2>1. PICK v : v = Rec("busy", 0, "error", 0)
    BY Zenon
  <2>2. con' = [con EXCEPT ![c] = v]
    BY <1>0, <1>2, <1>3, <2>1, ConErrIs
  <2>3. v \in ConType /\ v.fd = 0 /\ v.st = "busy" /\ v.told = 0
    BY <2>1 DEF ConType, Rec
  <2>4. con'[c] = v /\ \A d \in Connectors : d # c => con'[d] = con[d]
    BY <1>0, <2>2, ChangedAt, Zenon DEF Core
  <2>5. con' \in [Connectors -> ConType]
    BY <1>0, <2>2, <2>3, ChangedAt DEF Core
  <2>6. ConOK(c)'
    BY <2>3, <2>4, Zenon DEF ConOK
  <2>7. Owned'
    BY <1>0, <1>1, <1>2, <2>0, <2>4, <2>6, ConnectorOnly
  <2>8. Core'
    BY <1>0, <1>1, <2>0, <2>5, Zenon DEF Core
  <2>9. Rest'
    BY <1>0, <1>1, <2>0, RestSame, Zenon
  <2> QED BY <2>7, <2>8, <2>9, TypeFrom, Zenon DEF NInv
<1>4. ASSUME NEW result \in {"fresh", "connecting", "connected"},
             NEW timer \in {"none", "timeout", "error"}, NEW f \in Fds,
             LowestFree(f), net' = Connect_i(c, f, result),
             trp' = [trp EXCEPT ![f] = "held"], con' = ConPut(c, "busy", f, timer),
             notes' = IF result = "connected" THEN Append(notes, f) ELSE notes
      PROVE  NInv'
  <2>1. FreeSlot(f)
    <3>1. net.sk[f].st = "closed"
      BY <1>4, Zenon DEF LowestFree, FreeFds
    <3> QED BY <1>0, <3>1, SlotTells, Zenon DEF Owned
  <2>2. net.repo[f].eh = None
    BY <2>1, SlotKinds, Zenon
  <2>3. PICK s : s = [st |-> result, rx |-> 0]
    BY Zenon
  <2>4. PICK x : /\ net' = At(net, f, [eh |-> c, mask |-> {"CONNECT"}],
                              Want({"CONNECT"}), x, s)
                 /\ Ready(s) \cap Want({"CONNECT"}) \subseteq x
                 /\ x \subseteq Want({"CONNECT"})
    BY <1>0, <1>4, <2>2, <2>3, ConnectIs, Zenon
  <2>5. s \in Sock /\ s.st # "closed"
    BY <1>4, <2>3, BoundsAssumption DEF Sock, States
  <2>6. PICK v : v = Rec("busy", f, timer, 0)
    BY Zenon
  <2>7. con' = [con EXCEPT ![c] = v]
    BY <1>0, <1>2, <1>4, <2>6, ConPutIs
  <2>8. v \in ConType /\ v.fd = f /\ v.st = "busy" /\ v.told = 0
    BY <1>4, <2>6 DEF ConType, Rec
  <2>9. con'[c] = v
    BY <1>0, <2>7, ChangedAt, Zenon DEF Core
  <2>10. con' \in [Connectors -> ConType]
    BY <1>0, <2>7, <2>8, ChangedAt, Zenon DEF Core
  <2>11. net'.repo[f].eh = c
    <3>1. PICK e, w : e = [eh |-> c, mask |-> {"CONNECT"}] /\ w = Want({"CONNECT"})
      BY Zenon
    <3>2. net' = At(net, f, e, w, x, s)
      BY <2>4, <3>1, Zenon
    <3>3. At(net, f, e, w, x, s).repo[f] = e
      BY <1>0, EntryHere
    <3>4. e.eh = c
      BY <3>1, Zenon
    <3> QED BY <3>2, <3>3, <3>4, Zenon
  <2>12. ConOK(c)'
    BY <2>8, <2>9, <2>11, Zenon DEF ConOK
  <2>13. OwnersFollow(f)
    <3>1. con[c].fd \in {0, f} /\ net.repo[f].eh \in {c, None}
      BY <1>2, <2>2, Zenon
    <3> QED BY <1>0, <1>1, <2>7, <2>12, <3>1, MovesConnector, Zenon
  <2>14. BatchKept(f)
    BY <1>1, SameBatch, Zenon
  <2>15. con'[c].fd = f
    BY <2>8, <2>9, Zenon
  <2>16. Owned'
    BY <1>0, <1>4, <2>4, <2>5, <2>13, <2>14, <2>15, SlotConnects, Zenon
  <2>17. net' \in NetType
    <3>1. /\ [eh |-> c, mask |-> {"CONNECT"}] \in Entry
          /\ Want({"CONNECT"}) \in SUBSET Filters
      BY EntryType, WantType, Zenon
    <3>2. x \in SUBSET Filters
      BY <2>4, <3>1
    <3> QED BY <1>0, <2>4, <2>5, <3>1, <3>2, AtType, Zenon
  <2>18. trp' \in [Fds -> {"none", "held", "open", "cut"}]
    BY <1>0, <1>4, Zenon DEF Core
  <2>19. Core'
    BY <1>0, <1>1, <2>10, <2>17, <2>18, Zenon DEF Core
  <2>20. notes' \in Seq(Fds)
    BY <1>0, <1>4, Appended, Zenon DEF Rest
  <2>21. Rest'
    BY <1>0, <1>1, <2>20, Zenon DEF Rest
  <2> QED BY <2>16, <2>19, <2>21, TypeFrom, Zenon DEF NInv
<1>5. ASSUME NEW f \in Fds, LowestFree(f), net' = StAt(net, f, "fresh"),
             trp' = [trp EXCEPT ![f] = "cut"], con' = ConErr(c), notes' = notes
      PROVE  NInv'
  <2>1. FreeSlot(f)
    <3>1. net.sk[f].st = "closed"
      BY <1>5, Zenon DEF LowestFree, FreeFds
    <3> QED BY <1>0, <3>1, SlotTells, Zenon DEF Owned
  <2>2. net.repo[f] = Cleared /\ net.repo[f].eh = None
    BY <2>1, SlotKinds, Zenon DEF FreeSlot
  <2>3. net.want[f] = {} /\ net.act[f] = {}
    <3>1. Cleared.mask = {} /\ WatchOK(f)
      BY <1>0, Zenon DEF Cleared, Owned
    <3>2. net.want[f] = {} /\ net.act[f] \subseteq {}
      BY <2>2, <3>1, WantIs, Zenon DEF WatchOK
    <3> QED BY <3>2
  <2>4. PICK s : s = [st |-> "fresh", rx |-> net.sk[f].rx]
    BY Zenon
  <2>5. s \in Sock /\ s.st # "closed"
    <3>1. net.sk[f] \in Sock
      BY <1>0, Fields, Zenon
    <3> QED BY <2>4, <3>1 DEF Sock, States
  <2>6. net' = At(net, f, Cleared, {}, {}, s)
    <3>1. net' = At(net, f, net.repo[f], net.want[f], net.act[f], s)
      BY <1>0, <1>5, <2>4, SocketIn, Zenon
    <3> QED BY <2>2, <2>3, <3>1, Zenon
  <2>7. PICK v : v = Rec("busy", 0, "error", 0)
    BY Zenon
  <2>8. con' = [con EXCEPT ![c] = v]
    BY <1>0, <1>2, <1>5, <2>7, ConErrIs
  <2>9. v \in ConType /\ v.fd = 0 /\ v.st = "busy" /\ v.told = 0
    BY <2>7 DEF ConType, Rec
  <2>10. con'[c] = v /\ con' \in [Connectors -> ConType]
    BY <1>0, <2>8, <2>9, ChangedAt DEF Core
  <2>11. ConOK(c)'
    BY <2>9, <2>10, Zenon DEF ConOK
  <2>12. OwnersFollow(f)
    <3>1. con[c].fd \in {0, f} /\ net.repo[f].eh \in {c, None}
      BY <1>2, <2>2, Zenon
    <3> QED BY <1>0, <1>1, <2>8, <2>11, <3>1, MovesConnector, Zenon
  <2>13. BatchKept(f)
    BY <1>1, SameBatch, Zenon
  <2>14. Owned'
    BY <1>0, <1>5, <2>5, <2>6, <2>12, <2>13, SlotLeft, Zenon
  <2>15. net' \in NetType
    <3>1. Cleared \in Entry /\ {} \in SUBSET Filters
      BY EntryType
    <3> QED BY <1>0, <2>5, <2>6, <3>1, AtType, Zenon
  <2>16. trp' \in [Fds -> {"none", "held", "open", "cut"}]
    BY <1>0, <1>5, Zenon DEF Core
  <2>17. Core'
    BY <1>0, <1>1, <2>10, <2>15, <2>16, Zenon DEF Core
  <2>18. Rest'
    BY <1>0, <1>1, <1>5, RestSame, Zenon
  <2> QED BY <2>14, <2>17, <2>18, TypeFrom, Zenon DEF NInv
<1> QED BY <1>3, <1>4, <1>5, Zenon DEF AsycConnect, ConErr, ConPut, StAt

\* StartListen registers the acceptor on a descriptor nobody has.
LEMMA ListenIs ==
  ASSUME NEW f \in Fds, NEW a, net \in NetType, net.repo[f].eh = None
  PROVE  \E x, s : /\ RegisterHandler(StAt(net, f, "listening"), f, a, {"ACCEPT"})
                       = At(net, f, [eh |-> a, mask |-> {"ACCEPT"}],
                            Want({"ACCEPT"}), x, s)
                   /\ s \in Sock /\ s.st = "listening" /\ x \subseteq Want({"ACCEPT"})
<1>1. PICK s : s = [st |-> "listening", rx |-> net.sk[f].rx]
  BY Zenon
<1>2. PICK n1 : n1 = At(net, f, net.repo[f], net.want[f], net.act[f], s)
  BY Zenon
<1>3. StAt(net, f, "listening") = n1
  BY <1>1, <1>2, SocketIn, Zenon
<1>4. /\ net.repo[f] \in Entry /\ net.want[f] \in SUBSET Filters
      /\ net.act[f] \in SUBSET Filters /\ net.sk[f] \in Sock
  BY Fields
<1>5. s \in Sock /\ s.st = "listening"
  BY <1>1, <1>4, Zenon DEF Sock, States
<1>6. n1 \in NetType /\ n1.repo[f] = net.repo[f] /\ n1.sk[f] = s
  <2>1. n1 \in NetType
    BY <1>2, <1>4, <1>5, AtType, Zenon
  <2>2. n1.repo[f] = net.repo[f] /\ n1.sk[f] = s
    BY <1>2, AtHere
  <2> QED BY <2>1, <2>2, Zenon
<1>7. PICK r, w, x : /\ r = [eh |-> a, mask |-> {"ACCEPT"}] /\ w = Want({"ACCEPT"})
                     /\ x = Ready(s) \cap w
  BY Zenon
<1>8. RegisterHandler(n1, f, a, {"ACCEPT"}) = At(n1, f, r, w, x, s)
  <2>1. n1.repo[f].eh = None
    BY <1>6, Zenon
  <2>2. RegisterHandler(n1, f, a, {"ACCEPT"})
          = At(n1, f, [eh |-> a, mask |-> {"ACCEPT"}], Want({"ACCEPT"}),
               Ready(n1.sk[f]) \cap Want({"ACCEPT"}), n1.sk[f])
    BY <1>6, <2>1, RegisterFree
  <2> QED BY <1>6, <1>7, <2>2, Zenon
<1>9. At(n1, f, r, w, x, s) = At(net, f, r, w, x, s)
  BY <1>2, AtTwice
<1>10. x \subseteq w
  BY <1>7, Zenon
<1> QED BY <1>3, <1>5, <1>7, <1>8, <1>9, <1>10, Zenon

\* CFSAcceptorTcp::StartListen.
LEMMA KeepsListen ==
  ASSUME NInv, NEW a \in Acceptors, StartListen(a) PROVE NInv'
<1>0. TypeOK /\ Owned /\ Rest /\ Core /\ net \in NetType
  BY CoreHolds, Zenon DEF NInv, Core
<1>1. /\ acc[a] = 0 /\ listens < MaxListens /\ listens' = listens + 1
      /\ con' = con /\ trp' = trp /\ notes' = notes /\ phase' = phase
      /\ batch' = batch /\ faults' = faults
  BY Zenon DEF StartListen
<1>2. PICK f \in Fds :
        /\ LowestFree(f) /\ acc' = [acc EXCEPT ![a] = f]
        /\ net' = RegisterHandler(StAt(net, f, "listening"), f, a, {"ACCEPT"})
  BY Zenon DEF StartListen, StAt
<1>3. FreeSlot(f)
  <2>1. net.sk[f].st = "closed"
    BY <1>2, Zenon DEF LowestFree, FreeFds
  <2> QED BY <1>0, <2>1, SlotTells, Zenon DEF Owned
<1>4. net.repo[f].eh = None /\ trp[f] = "none"
  BY <1>3, SlotKinds, Zenon DEF FreeSlot
<1>5. PICK x, s : /\ net' = At(net, f, [eh |-> a, mask |-> {"ACCEPT"}],
                               Want({"ACCEPT"}), x, s)
                  /\ s \in Sock /\ s.st = "listening"
                  /\ x \subseteq Want({"ACCEPT"})
  BY <1>0, <1>2, <1>4, ListenIs, Zenon
<1>6. acc'[a] = f /\ acc' \in [Acceptors -> Fds \cup {0}]
  BY <1>0, <1>2 DEF Core
<1>7. AccOK(a)'
  <2>1. net'.repo[f].eh = a
    <3>1. PICK e, w : e = [eh |-> a, mask |-> {"ACCEPT"}] /\ w = Want({"ACCEPT"})
      BY Zenon
    <3>2. net' = At(net, f, e, w, x, s)
      BY <1>5, <3>1, Zenon
    <3>3. At(net, f, e, w, x, s).repo[f] = e
      BY <1>0, EntryHere
    <3>4. e.eh = a
      BY <3>1, Zenon
    <3> QED BY <3>2, <3>3, <3>4, Zenon
  <2> QED BY <1>6, <2>1, Zenon DEF AccOK
<1>8. OwnersFollow(f)
  <2>1. acc[a] \in {0, f} /\ net.repo[f].eh \in {a, None}
    BY <1>1, <1>4, Zenon
  <2> QED BY <1>0, <1>1, <1>2, <1>7, <2>1, MovesAcceptor, Zenon
<1>9. BatchKept(f)
  BY <1>1, SameBatch, Zenon
<1>10. Owned'
  BY <1>0, <1>1, <1>4, <1>5, <1>6, <1>8, <1>9, SlotListens, Zenon
<1>11. net' \in NetType
  <2>1. /\ [eh |-> a, mask |-> {"ACCEPT"}] \in Entry
        /\ Want({"ACCEPT"}) \in SUBSET Filters
    BY EntryType, WantType, Zenon
  <2>2. x \in SUBSET Filters
    BY <1>5, <2>1
  <2> QED BY <1>0, <1>5, <2>1, <2>2, AtType, Zenon
<1>12. Core'
  BY <1>0, <1>1, <1>6, <1>11, Zenon DEF Core
<1>13. listens' \in 0..MaxListens
  BY <1>0, <1>1, BoundsAssumption DEF Rest
<1>14. Rest'
  BY <1>0, <1>1, <1>13, Zenon DEF Rest
<1> QED BY <1>10, <1>12, <1>14, TypeFrom, Zenon DEF NInv

\* CFSAcceptorTcp::StopListen.
LEMMA KeepsStop ==
  ASSUME NInv, NEW a \in Acceptors, StopListen(a) PROVE NInv'
<1>0. TypeOK /\ Owned /\ Rest /\ Core /\ net \in NetType
  BY CoreHolds, Zenon DEF NInv, Core
<1>1. /\ acc[a] # 0 /\ acc' = [acc EXCEPT ![a] = 0]
      /\ net' = CloseFd(RemoveHandler(net, acc[a], {"ACCEPT"}), acc[a])
      /\ con' = con /\ trp' = trp /\ notes' = notes /\ phase' = phase
      /\ batch' = batch /\ listens' = listens /\ faults' = faults
  BY Zenon DEF StopListen
<1>2. PICK f \in Fds : acc[a] = f
  BY <1>0, <1>1, Zenon DEF Core
<1>3. net.repo[f].eh = a
  BY <1>0, <1>1, <1>2, Zenon DEF Owned, AccOK
<1>4. AcceptorHas(f)
  BY <1>0, <1>3, SlotTells, Zenon DEF Owned
<1>5. net.repo[f].mask = {"ACCEPT"} /\ trp[f] = "none"
  <2>1. net.repo[f] = [eh |-> net.repo[f].eh, mask |-> {"ACCEPT"}]
    BY <1>4, Zenon DEF AcceptorHas
  <2>2. trp[f] = "none"
    BY <1>4, Zenon DEF AcceptorHas
  <2> QED BY <2>1, <2>2
<1>6. PICK n : n = At(net, f, Cleared, {}, {}, net.sk[f])
  BY Zenon
<1>7. RemoveHandler(net, f, {"ACCEPT"}) = n
  <2>1. net.repo[f].mask # {} /\ net.repo[f].mask \subseteq {"ACCEPT"}
    BY <1>5, Zenon
  <2> QED BY <1>0, <1>6, <2>1, RemoveAll, Zenon
<1>8. Closed.st = "closed" /\ Closed \in Sock
  BY BoundsAssumption DEF Closed, Sock, States
<1>9. Cleared \in Entry /\ {} \in SUBSET Filters /\ net.sk[f] \in Sock
  BY <1>0, EntryType, Fields, Zenon
<1>10. n \in NetType /\ n.repo[f] = Cleared
  <2>1. n \in NetType
    BY <1>0, <1>6, <1>9, AtType, Zenon
  <2>2. n.repo[f] = Cleared
    BY <1>0, <1>6, AtHere
  <2> QED BY <2>1, <2>2, Zenon
<1>11. net' = At(n, f, Cleared, {}, {}, Closed)
  BY <1>1, <1>2, <1>7, <1>10, CloseIs
<1>12. net' = At(net, f, Cleared, {}, {}, Closed)
  BY <1>0, <1>6, <1>11, AtTwice
<1>13. acc'[a] = 0 /\ acc' \in [Acceptors -> Fds \cup {0}]
  BY <1>0, <1>1, Zenon DEF Core
<1>14. OwnersFollow(f)
  <2>1. acc[a] \in {0, f} /\ net.repo[f].eh \in {a, None}
    BY <1>2, <1>3, Zenon
  <2>2. AccOK(a)'
    BY <1>13, Zenon DEF AccOK
  <2> QED BY <1>0, <1>1, <2>1, <2>2, MovesAcceptor, Zenon
<1>15. BatchKept(f)
  BY <1>1, SameBatch, Zenon
<1>16. trp' = [trp EXCEPT ![f] = "none"]
  BY <1>0, <1>1, <1>5, SameAt DEF Core
<1>17. Owned'
  BY <1>0, <1>8, <1>12, <1>14, <1>15, <1>16, SlotLeft, Zenon
<1>18. net' \in NetType
  BY <1>0, <1>8, <1>9, <1>12, AtType, Zenon
<1>19. Core'
  BY <1>0, <1>1, <1>13, <1>18, Zenon DEF Core
<1>20. Rest'
  BY <1>0, <1>1, RestSame, Zenon
<1> QED BY <1>17, <1>19, <1>20, TypeFrom, Zenon DEF NInv

\* The stack: a socket in use goes on to another state in use.
LEMMA KeepsSocket ==
  ASSUME NInv, NEW f \in Fds, NEW st, NEW s \in Sock, SocketIs(f, st, s),
         st # "closed", s.st # "closed", st = "listening" => s.st = "listening"
  PROVE  NInv'
<1>0. TypeOK /\ Owned /\ Rest /\ Core /\ net \in NetType
  BY CoreHolds, Zenon DEF NInv, Core
<1>1. /\ net.sk[f].st = st /\ net' = Change(net, f, s) /\ acc' = acc
      /\ con' = con /\ trp' = trp /\ notes' = notes /\ phase' = phase
      /\ batch' = batch /\ listens' = listens /\ faults' = faults
  BY Zenon DEF SocketIs
<1>2. PICK x : x = net.act[f] \cup (Ready(s) \cap net.want[f])
  BY Zenon
<1>3. net' = At(net, f, net.repo[f], net.want[f], x, s)
  BY <1>0, <1>1, <1>2, ChangeIs
<1>4. net.act[f] \subseteq net.want[f]
  BY <1>0, Zenon DEF Owned, WatchOK
<1>5. x \subseteq net.want[f] /\ Ready(s) \cap net.want[f] \subseteq x
  BY <1>2, <1>4
<1>6. BatchKept(f)
  BY <1>1, SameBatch, Zenon
<1>7. Owned' /\ Core'
  BY <1>0, <1>1, <1>3, <1>5, <1>6, SocketKeeps
<1>8. Rest'
  BY <1>0, <1>1, RestSame, Zenon
<1> QED BY <1>7, <1>8, TypeFrom, Zenon DEF NInv

\* The TCP stack: a handshake ends, data arrives or the peer ends.
LEMMA KeepsStack ==
  ASSUME NInv, NEW f \in Fds, Handshake(f) \/ PeerSends(f) \/ PeerEnds(f)
  PROVE  NInv'
<1>0. net.sk[f] \in Sock
  BY Fields DEF NInv, TypeOK
<1>1. CASE Handshake(f)
  <2>1. PICK st \in {"connected", "failed"} :
          SocketIs(f, "connecting", [st |-> st, rx |-> 0])
    BY <1>1, Zenon DEF Handshake
  <2>2. PICK s : s = [st |-> st, rx |-> 0]
    BY Zenon
  <2>3. s \in Sock /\ s.st # "closed"
    BY <2>2, BoundsAssumption DEF Sock, States
  <2>4. "connecting" # "closed" /\ "connecting" # "listening"
    BY Zenon
  <2> QED BY <2>1, <2>2, <2>3, <2>4, KeepsSocket, Zenon
<1>2. CASE PeerSends(f)
  <2>1. PICK st \in {"connected", "listening"} :
          SocketIs(f, st, [net.sk[f] EXCEPT !.rx = @ + 1])
    BY <1>2, Zenon DEF PeerSends
  <2>2. PICK s : s = [net.sk[f] EXCEPT !.rx = @ + 1]
    BY Zenon
  <2>3. net.sk[f].rx < MaxUnread /\ net.sk[f].st = st
    BY <1>2, <2>1, Zenon DEF PeerSends, SocketIs
  <2>4. s \in Sock /\ s.st = st
    BY <1>0, <2>2, <2>3, BoundsAssumption DEF Sock
  <2>5. st # "closed"
    BY Zenon
  <2> QED BY <2>1, <2>2, <2>4, <2>5, KeepsSocket, Zenon
<1>3. CASE PeerEnds(f)
  <2>1. PICK st \in {"ended", "failed"} :
          SocketIs(f, "connected", [net.sk[f] EXCEPT !.st = st])
    BY <1>3, Zenon DEF PeerEnds
  <2>2. PICK s : s = [net.sk[f] EXCEPT !.st = st]
    BY Zenon
  <2>3. s \in Sock /\ s.st # "closed"
    BY <1>0, <2>2, Zenon DEF Sock, States
  <2>4. "connected" # "closed" /\ "connected" # "listening"
    OBVIOUS
  <2> QED BY <2>1, <2>2, <2>3, <2>4, KeepsSocket, Zenon
<1> QED BY <1>1, <1>2, <1>3, Zenon

---------------------------------------------------------------------------
(* The theorems.                                                           *)

\* The invariant holds of the thread that has just started.
LEMMA Starts ==
  ASSUME Init PROVE NInv
<1>1. /\ net = Net([f \in Fds |-> Cleared], [f \in Fds |-> {}],
                   [f \in Fds |-> {}], [f \in Fds |-> Closed])
      /\ con = [c \in Connectors |-> Rec("new", 0, "none", 0)]
      /\ acc = [a \in Acceptors |-> 0] /\ trp = [f \in Fds |-> "none"]
      /\ notes = <<>> /\ phase = "timers" /\ batch = {}
      /\ listens = 0 /\ faults = {}
  BY Zenon DEF Init, Net, Rec
<1>2. Closed \in Sock /\ Closed.st = "closed" /\ Cleared \in Entry
  BY EntryType, BoundsAssumption DEF Closed, Sock, States
<1>3. net \in NetType
  <2>1. /\ [f \in Fds |-> Cleared] \in [Fds -> Entry]
        /\ [f \in Fds |-> {}] \in [Fds -> SUBSET Filters]
        /\ [f \in Fds |-> Closed] \in [Fds -> Sock]
    BY <1>2, Zenon
  <2> QED BY <1>1, <2>1, Made, Zenon DEF Net
<1>4. \A f \in Fds : /\ net.repo[f] = Cleared /\ net.want[f] = {}
                     /\ net.act[f] = {} /\ net.sk[f] = Closed /\ trp[f] = "none"
  BY <1>1, Zenon DEF Net
<1>5. \A c \in Connectors : con[c] = Rec("new", 0, "none", 0)
  BY <1>1, Zenon
<1>6. PICK v : v = Rec("new", 0, "none", 0)
  BY Zenon
<1>7. /\ v \in ConType /\ v.fd = 0 /\ v.timer = "none" /\ v.told = 0
  BY <1>6 DEF Rec, ConType
<1>8. Core
  <2>1. con \in [Connectors -> ConType]
    BY <1>1, <1>6, <1>7, Zenon
  <2>2. /\ acc \in [Acceptors -> Fds \cup {0}]
        /\ trp \in [Fds -> {"none", "held", "open", "cut"}]
    BY <1>1
  <2> QED BY <1>3, <2>1, <2>2, Zenon DEF Core
<1>9. Rest
  <2>1. listens \in 0..MaxListens /\ notes \in Seq(Fds)
    BY <1>1, BoundsAssumption
  <2>2. phase \in {"timers", "batch", "queue", "midqueue"}
    BY <1>1, Zenon
  <2>3. batch \subseteq (Fds \X Filters) \cup {Pipe} /\ faults \subseteq {"FalseSuccess"}
    BY <1>1, Zenon
  <2> QED BY <1>1, <2>1, <2>2, <2>3, Zenon DEF Rest
<1>10. TypeOK
  <2>1. faults \subseteq {"FalseSuccess", "AcceptorClosed"}
    BY <1>1, Zenon
  <2> QED BY <1>8, <1>9, <2>1, Zenon DEF Core, Rest, TypeOK, ConType
<1>11. Owned
  <2>1. \A c \in Connectors : ConOK(c)
    BY <1>5, <1>6, <1>7, Zenon DEF ConOK
  <2>2. \A a \in Acceptors : AccOK(a)
    BY <1>1 DEF AccOK
  <2>3. ASSUME NEW f \in Fds PROVE SlotOK(f) /\ WatchOK(f) /\ EdgeOK(f)
    <3>1. Cleared.eh = None /\ Cleared.mask = {}
      BY Zenon DEF Cleared
    <3>2. FreeSlot(f)
      BY <1>2, <1>4, Zenon DEF FreeSlot
    <3>3. WatchOK(f)
      BY <1>4, <3>1, WantIs, Zenon DEF WatchOK
    <3>4. EdgeOK(f)
      BY <1>4, <3>1, Kinds, Zenon DEF EdgeOK
    <3> QED BY <3>2, <3>3, <3>4, Zenon DEF SlotOK
  <2> QED BY <2>1, <2>2, <2>3, Zenon DEF Owned
<1> QED BY <1>9, <1>10, <1>11, Zenon DEF NInv

\* Every step keeps the invariant.
LEMMA Steps ==
  ASSUME NInv, [Next]_vars PROVE NInv'
<1>1. CASE UNCHANGED vars
  <2>1. /\ net' = net /\ con' = con /\ acc' = acc /\ trp' = trp
        /\ notes' = notes /\ phase' = phase /\ batch' = batch
        /\ listens' = listens /\ faults' = faults
    BY <1>1, Zenon DEF vars
  <2>2. TypeOK'
    BY <2>1, Zenon DEF NInv, TypeOK
  <2>3. Owned'
    <3>1. \A c \in Connectors : ConOK(c)'
      BY <2>1, Zenon DEF NInv, Owned, ConOK
    <3>2. \A a \in Acceptors : AccOK(a)'
      BY <2>1, Zenon DEF NInv, Owned, AccOK
    <3>3. ASSUME NEW f \in Fds PROVE SlotOK(f)' /\ WatchOK(f)' /\ EdgeOK(f)'
      <4>1. SlotOK(f) /\ WatchOK(f) /\ EdgeOK(f)
        BY Zenon DEF NInv, Owned
      <4>2. SlotOK(f)'
        BY <2>1, <4>1, Zenon DEF SlotOK, FreeSlot, CutSlot, OpenSlot, ConnectSlot,
                                 ListenSlot
      <4>3. WatchOK(f)' /\ EdgeOK(f)'
        BY <2>1, <4>1, Zenon DEF WatchOK, EdgeOK, Pending
      <4> QED BY <4>2, <4>3, Zenon
    <3> QED BY <3>1, <3>2, <3>3, Zenon DEF Owned
  <2>4. Rest'
    BY <2>1, RestSame, Zenon DEF NInv
  <2> QED BY <2>2, <2>3, <2>4, Zenon DEF NInv
<1>2. CASE Loop
  BY <1>2, KeepsDispatch, KeepsNote, KeepsQueue, KeepsWait, KeepsTimeout, Zenon
     DEF Loop
<1>3. CASE \E c \in Connectors : OnTimeout(c)
  BY <1>3, KeepsTimeout, Zenon
<1>4. CASE \E f \in Fds : DeleteTransport(f)
  BY <1>4, KeepsDelete, Zenon
<1>5. CASE Request
  BY <1>5, KeepsConnect, KeepsCancel, KeepsListen, KeepsStop, KeepsDisconnect, Zenon
     DEF Request
<1>6. CASE Stack
  BY <1>6, KeepsStack, Zenon DEF Stack
<1> QED BY <1>1, <1>2, <1>3, <1>4, <1>5, <1>6, Zenon DEF Next

\* The invariant of the network thread, for every number of connectors,
\* acceptors and descriptors.
THEOREM Invariant == Spec => []NInv
<1>1. Init => NInv
  BY Starts
<1>2. NInv /\ [Next]_vars => NInv'
  BY Steps, Zenon
<1> QED BY <1>1, <1>2, PTL DEF Spec

\* Every variable keeps its type.
THEOREM TypeCorrect == Spec => []TypeOK
<1>1. NInv => TypeOK
  BY Zenon DEF NInv
<1> QED BY <1>1, Invariant, PTL

\* The kqueue watches exactly what the reactor's repository says.
THEOREM Interest == Spec => []InterestFollowsMask
<1>1. NInv => InterestFollowsMask
  BY Zenon DEF NInv, Owned, WatchOK, InterestFollowsMask
<1> QED BY <1>1, Invariant, PTL

\* A registered handler is alive and owns the descriptor it is registered for.
THEOREM Owners == Spec => []HandlersOwnTheirFd
<1>1. ASSUME NInv PROVE HandlersOwnTheirFd
  <2>1. ASSUME NEW f \in Fds, NEW h, h = net.repo[f].eh
        PROVE  /\ h \in Connectors => con[h].st = "busy" /\ con[h].fd = f
                                       /\ trp[f] = "held"
               /\ h \in Acceptors => acc[h] = f /\ net.sk[f].st = "listening"
               /\ h \in Fds => h = f /\ trp[f] = "open" /\ net.sk[f].st # "closed"
    <3>0. SlotOK(f) /\ f # 0
      BY <1>1, Kinds, Zenon DEF NInv, Owned
    <3>1. ASSUME h \in Connectors
          PROVE  con[h].st = "busy" /\ con[h].fd = f /\ trp[f] = "held"
      <4>1. con[h].fd = f /\ trp[f] = "held"
        BY <2>1, <3>0, <3>1, SlotTells, Zenon DEF ConnectorHas
      <4>2. ConOK(h)
        BY <1>1, <3>1, Zenon DEF NInv, Owned
      <4> QED BY <3>0, <4>1, <4>2, Zenon DEF ConOK
    <3>2. h \in Acceptors => acc[h] = f /\ net.sk[f].st = "listening"
      BY <2>1, <3>0, SlotTells, Zenon DEF AcceptorHas
    <3>3. h \in Fds => h = f /\ trp[f] = "open" /\ net.sk[f].st # "closed"
      BY <2>1, <3>0, SlotTells, SlotKinds, Zenon DEF OpenSlot
    <3> QED BY <3>1, <3>2, <3>3, Zenon
  <2> QED BY <2>1, Zenon DEF HandlersOwnTheirFd
<1> QED BY <1>1, Invariant, PTL

\* No descriptor is leaked and none is shared.
THEOREM Descriptors == Spec => []DescriptorsOwned
<1>1. ASSUME NInv PROVE DescriptorsOwned
  <2>1. ASSUME NEW f \in Fds, NEW L, L = {a \in Acceptors : acc[a] = f}
        PROVE  /\ net.sk[f].st = "closed" <=> trp[f] = "none" /\ L = {}
               /\ L # {} => trp[f] = "none"
               /\ \A a, b \in L : a = b
               /\ trp[f] = "held" =>
                    \E c \in Connectors : con[c].st = "busy" /\ con[c].fd = f
               /\ trp[f] = "open" => net.repo[f].eh = f
    <3>0. SlotOK(f) /\ f # 0 /\ Owned
      BY <1>1, Kinds, Zenon DEF NInv, Owned
    <3>1. ASSUME NEW a \in L
          PROVE  /\ net.repo[f].eh = a /\ trp[f] = "none"
                 /\ net.sk[f].st = "listening"
      <4>1. a \in Acceptors /\ acc[a] = f
        BY <2>1, <3>1, Zenon
      <4>2. net.repo[f].eh = a
        BY <3>0, <4>1, Zenon DEF Owned, AccOK
      <4>3. AcceptorHas(f)
        BY <3>0, <4>1, <4>2, SlotTells, Zenon
      <4> QED BY <4>2, <4>3, Zenon DEF AcceptorHas
    <3>2. CASE FreeSlot(f)
      <4>1. L = {}
        <5>1. \A a \in Acceptors : acc[a] # f
          BY <3>0, <3>2, SlotKinds, NotHis, Kinds, Zenon
        <5> QED BY <2>1, <5>1, Zenon
      <4> QED BY <3>2, <4>1, Zenon DEF FreeSlot
    <3>3. CASE CutSlot(f)
      <4>1. trp[f] = "cut" /\ net.sk[f].st # "closed"
        BY <3>3, Zenon DEF CutSlot
      <4> QED BY <3>1, <4>1, Zenon
    <3>4. CASE OpenSlot(f)
      <4>1. trp[f] = "open" /\ net.sk[f].st # "closed" /\ net.repo[f].eh = f
        BY <3>4, SlotKinds, Zenon DEF OpenSlot
      <4> QED BY <3>1, <4>1, Zenon
    <3>5. CASE ConnectSlot(f)
      <4>1. PICK c \in Connectors : /\ con[c].fd = f /\ trp[f] = "held"
                                    /\ net.sk[f].st # "closed"
        BY <3>5, Zenon DEF ConnectSlot
      <4>2. con[c].st = "busy"
        BY <3>0, <4>1, Zenon DEF Owned, ConOK
      <4> QED BY <3>1, <4>1, <4>2, Zenon
    <3>6. CASE ListenSlot(f)
      <4>1. PICK a \in Acceptors : /\ acc[a] = f /\ trp[f] = "none"
                                   /\ net.sk[f].st = "listening"
        BY <3>6, Zenon DEF ListenSlot
      <4>2. a \in L
        BY <2>1, <4>1
      <4> QED BY <3>1, <4>1, <4>2
    <3> QED BY <3>0, <3>2, <3>3, <3>4, <3>5, <3>6, Zenon DEF SlotOK
  <2> QED BY <2>1, Zenon DEF DescriptorsOwned
<1> QED BY <1>1, Invariant, PTL

\* A connect is indicated at most once.
THEOREM Indicated == Spec => []IndicatedOnce
<1>1. ASSUME NInv PROVE IndicatedOnce
  <2>1. ASSUME NEW c \in Connectors
        PROVE  con[c].told <= 1 /\ (con[c].st # "done" => con[c].told = 0)
    <3>1. con[c].told \in 0..1
      BY <1>1, CoreHolds, Zenon DEF NInv, Core, ConType
    <3>2. ConOK(c)
      BY <1>1, Zenon DEF NInv, Owned
    <3>3. con[c].told <= 1
      BY <3>1
    <3> QED BY <3>2, <3>3, Zenon DEF ConOK
  <2> QED BY <2>1, Zenon DEF IndicatedOnce
<1> QED BY <1>1, Invariant, PTL

\* No edge is lost: what a handler waits for is in the kqueue or in the batch.
THEOREM Edges == Spec => []EdgePending
<1>1. ASSUME NInv PROVE EdgePending
  <2>1. ASSUME NEW f \in Fds, NEW h, NEW p, h = net.repo[f].eh,
               p = net.act[f] \cup {e[2] : e \in {x \in batch : x[1] = f}}
        PROVE  /\ h \in Connectors => Ready(net.sk[f]) \cap {"OUT"} \subseteq p
               /\ h \in Fds => Ready(net.sk[f]) \cap {"IN"} \subseteq p
    <3>1. EdgeOK(f)
      BY <1>1, Zenon DEF NInv, Owned
    <3>2. ASSUME NEW y, Pending(f, y) PROVE y \in p
      <4>1. CASE <<f, y>> \in batch
        <5>1. <<f, y>>[1] = f /\ <<f, y>>[2] = y
          BY Zenon
        <5> QED BY <2>1, <4>1, <5>1, Zenon
      <4> QED BY <2>1, <3>2, <4>1, Zenon DEF Pending
    <3> QED BY <2>1, <3>1, <3>2, Zenon DEF EdgeOK
  <2> QED BY <2>1, Zenon DEF EdgePending
<1> QED BY <1>1, Invariant, PTL

\* CFSAcceptorTcp::OnClose is impossible, as its trace says.
THEOREM Impossible == Spec => []AcceptorNeverClosed
<1>1. ASSUME NInv PROVE AcceptorNeverClosed
  BY <1>1, Zenon DEF NInv, Rest, AcceptorNeverClosed
<1> QED BY <1>1, Invariant, PTL
=============================================================================
