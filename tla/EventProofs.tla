---------------------------- MODULE EventProofs ----------------------------
(***************************************************************************)
(* The life of the event objects of a reactor: proofs that none is used    *)
(* after it was deleted, that SendEvent returns the result of its event,   *)
(* and that the reactor implements EventService.                           *)
(***************************************************************************)
EXTENDS ReactorProofs

\* The loop thread is working on the first event of the queue.
Holds ==
  \/ loop \in {"callback", "signal", "destroy"}
  \/ loop = "loopnotify" /\ resume = "callback"

\* Nothing is popped outside ProcessEvents.
ListInv == ~Holds /\ loop # "process" => listEvents = <<>>

\* An event posted and not yet fired.
Fresh(r) ==
  /\ r.kind \in {"plain", "sync"} /\ r.fired = 0 /\ r.deleted = 0
  /\ ~r.m_bHasDestoryed /\ ~r.signalled

\* A synchronous event whose sender has been signalled.
Back(r) ==
  /\ r.kind = "sync" /\ r.fired = 1 /\ r.deleted = 0
  /\ r.signalled /\ r.m_Result = "fired"

Sent(e) == \E p \in Posters : sending[p] = e

\* The loop thread has signalled the sender of e and not yet destroyed e.
Parting(e) ==
  /\ loop = "destroy" /\ e = Queue[1]
  /\ ev[e].kind = "sync" /\ ~ev[e].m_bHasDestoryed

\* An event in the queue is there for the first time, or for the second time
\* and then its sender is gone.
Queued(e) ==
  \/ Fresh(ev[e])
  \/ Back(ev[e]) /\ ~Sent(e) /\ (ev[e].m_bHasDestoryed \/ Parting(e))

\* Close has not yet come to this place of the list.
Unswept(i) == loop # "clear" /\ (loop = "sweep" => i >= iter)

QueueInv ==
  \A i \in 1..Len(Queue) : Unswept(i) /\ (i > 1 \/ ~Holds) => Queued(Queue[i])

\* An event is in the queue once; a sender that was signalled may post it
\* again before the loop thread has destroyed it.
Distinct ==
  \A i, j \in 1..Len(Queue) :
    i < j /\ Queue[i] = Queue[j] => i = 1 /\ Parting(Queue[i])

HeadInv ==
  LET r == ev[Queue[1]] IN
  /\ Holds => r.fired = 1 /\ r.deleted = 0 /\ r.kind \in {"plain", "sync"}
  /\ Holds /\ loop # "destroy" => ~r.m_bHasDestoryed /\ ~r.signalled
  /\ loop = "signal" => r.kind = "sync" /\ r.m_Result = "fired"
  /\ loop = "destroy" /\ r.kind = "sync" => Back(r)
  /\ loop = "destroy" /\ r.m_bHasDestoryed => r.kind = "sync" /\ ~Sent(Queue[1])

SendInv ==
  \A p \in Posters : sending[p] # NoEvent =>
    /\ pc[p] \in {"notify", "wait"}
    /\ ev[sending[p]].kind = "sync" /\ ev[sending[p]].deleted = 0
    /\ ev[sending[p]].signalled =>
         /\ Back(ev[sending[p]])
         /\ ev[sending[p]].m_bHasDestoryed \/ Parting(sending[p])
         /\ \A i \in 1..Len(Queue) :
              Queue[i] = sending[p] => i = 1 /\ Parting(sending[p])
    /\ \A q \in Posters : sending[q] = sending[p] => q = p

UnusedInv ==
  \A e \in Events : ev[e].kind = "unused" =>
    ev[e] = Unused /\ ~Sent(e) /\ \A i \in 1..Len(Queue) : Queue[i] # e

CountInv == \A e \in Events : ev[e].deleted <= 1 /\ ev[e].fired <= 1

LInv ==
  /\ ListInv /\ QueueInv /\ Distinct /\ HeadInv
  /\ SendInv /\ UnusedInv /\ CountInv

USE MaxGetOnceAssumption, PipeCapacityAssumption, NoEventAssumption

-----------------------------------------------------------------------------
(* The queue *)

\* A push appends to the whole queue.
LEMMA AppendAtEnd ==
  ASSUME NEW S, NEW s \in Seq(S), NEW t \in Seq(S), NEW e \in S
  PROVE  s \o Append(t, e) = Append(s \o t, e)
OBVIOUS

\* What stands where after a push.
LEMMA Appended ==
  ASSUME NEW S, NEW s \in Seq(S), NEW e \in S
  PROVE  /\ Len(s) \in Nat
         /\ Len(Append(s, e)) = Len(s) + 1
         /\ \A i \in 1..Len(s) : Append(s, e)[i] = s[i]
         /\ \A i \in 1..(Len(s) + 1) : i \notin 1..Len(s) =>
              i = Len(s) + 1 /\ Append(s, e)[i] = e
OBVIOUS

\* The event destroyed is the first of the whole queue.
LEMMA TailOfBoth ==
  ASSUME NEW S, NEW s \in Seq(S), NEW t \in Seq(S), s # <<>>
  PROVE  /\ Tail(s) \o t = Tail(s \o t)
         /\ (s \o t)[1] = Head(s)
         /\ Len(s \o t) >= 1
OBVIOUS

\* What stands where after that.
LEMMA TailShifts ==
  ASSUME NEW S, NEW s \in Seq(S), Len(s) >= 1
  PROVE  /\ Len(s) \in Nat
         /\ Len(Tail(s)) = Len(s) - 1
         /\ \A i \in 1..(Len(s) - 1) : Tail(s)[i] = s[i + 1]
OBVIOUS

\* What a concatenation holds.
LEMMA Joined ==
  ASSUME NEW S, NEW a \in Seq(S), NEW b \in Seq(S)
  PROVE  /\ a \o b \in Seq(S) /\ Len(a \o b) = Len(a) + Len(b)
         /\ \A i \in 1..Len(a) : (a \o b)[i] = a[i]
         /\ \A i \in (Len(a) + 1)..(Len(a) + Len(b)) : (a \o b)[i] = b[i - Len(a)]
OBVIOUS

\* Lists that hold the same are the same.
LEMMA SameList ==
  ASSUME NEW S, NEW a \in Seq(S), NEW b \in Seq(S), Len(a) = Len(b),
         \A i \in 1..Len(a) : a[i] = b[i]
  PROVE  a = b
OBVIOUS

\* A partial pop cuts the list in two.
LEMMA CutInTwo ==
  ASSUME NEW S, NEW s \in Seq(S), NEW n \in 0..Len(s)
  PROVE  SubSeq(s, 1, n) \o SubSeq(s, n + 1, Len(s)) = s
<1>0. /\ n \in Nat /\ Len(s) \in Nat /\ n <= Len(s)
      /\ \A i \in 1..Len(s) : s[i] \in S
  OBVIOUS
<1>1. PICK a : a = SubSeq(s, 1, n)
  BY Zenon
<1>2. PICK b : b = SubSeq(s, n + 1, Len(s))
  BY Zenon
<1>3. a \in Seq(S) /\ Len(a) = n /\ \A i \in 1..n : a[i] = s[i]
  BY <1>0, <1>1
<1>4. /\ b \in Seq(S) /\ Len(b) = Len(s) - n
      /\ \A i \in 1..(Len(s) - n) : b[i] = s[n + i]
  BY <1>0, <1>2
<1>5. PICK c : c = a \o b
  BY Zenon
<1>6. /\ c \in Seq(S) /\ Len(c) = Len(a) + Len(b)
      /\ \A i \in 1..Len(a) : c[i] = a[i]
      /\ \A i \in (Len(a) + 1)..(Len(a) + Len(b)) : c[i] = b[i - Len(a)]
  BY <1>3, <1>4, <1>5, Joined
<1>7. ASSUME NEW i \in 1..Len(s) PROVE c[i] = s[i]
  <2>1. CASE i <= n
    BY <1>0, <1>3, <1>6, <2>1
  <2>2. CASE i > n
    <3>1. i - n \in 1..(Len(s) - n) /\ i \in (Len(a) + 1)..(Len(a) + Len(b)) /\ n + (i - n) = i
      BY <1>0, <1>3, <1>4, <2>2
    <3> QED
      BY <1>3, <1>4, <1>6, <3>1, Zenon
  <2> QED
    BY <1>0, <2>1, <2>2
<1>8. Len(c) = Len(s)
  BY <1>0, <1>3, <1>4, <1>6
<1> QED
  BY <1>1, <1>2, <1>5, <1>6, <1>7, <1>8, SameList, Zenon

\* The first event of the queue is the one the loop thread works on.
LEMMA QueueFacts ==
  ASSUME IInv
  PROVE  /\ Queue \in Seq(Events) /\ Len(Queue) \in Nat
         /\ \A i \in 1..Len(Queue) : Queue[i] \in Events
         /\ listEvents # <<>> => Queue[1] = Head(listEvents) /\ Len(Queue) >= 1
         /\ Holds => listEvents # <<>>
<1>1. listEvents \in Seq(Events) /\ m_Events \in Seq(Events)
  BY Zenon DEF IInv, TypeOK
<1>2. Queue \in Seq(Events)
  BY <1>1 DEF Queue
<1>3. Len(Queue) \in Nat /\ \A i \in 1..Len(Queue) : Queue[i] \in Events
  BY <1>2
<1>4. listEvents # <<>> => Queue[1] = Head(listEvents) /\ Len(Queue) >= 1
  BY <1>1, TailOfBoth, Zenon DEF Queue
<1>5. Holds => listEvents # <<>>
  BY Zenon DEF IInv, Holding, Holds
<1> QED
  BY <1>2, <1>3, <1>4, <1>5, Zenon

\* What an action does to the queue.
LEMMA PushQueue ==
  ASSUME IInv, NEW e \in Events, Push(e), listEvents' = listEvents
  PROVE  Queue' = Append(Queue, e)
<1>1. listEvents \in Seq(Events) /\ m_Events \in Seq(Events)
  BY Zenon DEF IInv, TypeOK
<1>2. Queue' = listEvents \o Append(m_Events, e)
  BY Zenon DEF Queue, Push
<1> QED
  BY <1>1, <1>2, AppendAtEnd DEF Queue

\* A pop moves the cut between the two lists.
LEMMA PopQueue ==
  ASSUME IInv, ListInv, PopPendingEvents
  PROVE  Queue' = Queue
<1>1. m_Events \in Seq(Events) /\ m_dwSize = Len(m_Events) /\ listEvents = <<>>
  BY Zenon DEF IInv, TypeOK, SizeInv, PopPendingEvents, ListInv, Holds
<1>2. Queue = m_Events
  BY <1>1 DEF Queue
<1>3. CASE m_dwSize = 0 /\ listEvents' = <<>> /\ UNCHANGED queueVars
  BY <1>1, <1>3, Zenon DEF Queue, queueVars
<1>4. CASE listEvents' = m_Events /\ m_Events' = <<>>
  BY <1>1, <1>2, <1>4 DEF Queue
<1>5. CASE /\ m_dwSize > MaxGetOnce
           /\ listEvents' = SubSeq(m_Events, 1, MaxGetOnce)
           /\ m_Events' = SubSeq(m_Events, MaxGetOnce + 1, Len(m_Events))
  <2>1. MaxGetOnce \in 0..Len(m_Events)
    BY <1>1, <1>5
  <2> QED
    BY <1>1, <1>2, <1>5, <2>1, CutInTwo, ZenonT(30) DEF Queue
<1> QED
  BY <1>3, <1>4, <1>5, Zenon DEF PopPendingEvents

-----------------------------------------------------------------------------
(* The invariant is inductive. *)

\* It holds at the start.
LEMMA InitLInv == Init => LInv
<1> SUFFICES ASSUME Init PROVE LInv
  BY Zenon
<1>1. Queue = <<>> /\ Len(Queue) = 0
  BY DEF Init, Queue
<1>2. ~Holds /\ loop = "top" /\ listEvents = <<>>
  BY Zenon DEF Init, Holds
<1>3. \A e \in Events : ev[e] = Unused
  BY Zenon DEF Init
<1>4. \A p \in Posters : sending[p] = NoEvent
  BY Zenon DEF Init
<1>5. UnusedInv
  BY <1>1, <1>3, <1>4 DEF UnusedInv, Sent
<1>6. CountInv
  BY <1>3 DEF CountInv, Unused
<1> QED
  BY <1>1, <1>2, <1>4, <1>5, <1>6 DEF LInv, ListInv, QueueInv, Distinct, HeadInv, SendInv

\* Steps that neither touch the event objects nor the queue and leave the loop
\* thread at work on the same event, or on none.
LEMMA QuietLInv ==
  ASSUME IInv, LInv, ListInv', ev' = ev, sending' = sending, Queue' = Queue,
         Holds' <=> Holds, loop' = "destroy" <=> loop = "destroy",
         loop' = "signal" <=> loop = "signal",
         loop \notin {"sweep", "clear"} \/ (loop' = loop /\ iter' = iter),
         \A p \in Posters : sending[p] # NoEvent => pc'[p] \in {"notify", "wait"}
  PROVE  LInv'
<1>0. QueueInv /\ Distinct /\ HeadInv /\ SendInv /\ UnusedInv /\ CountInv
  BY Zenon DEF LInv
<1>1. \A e : (Sent(e)' <=> Sent(e)) /\ (Parting(e)' <=> Parting(e))
  BY Zenon DEF Sent, Parting
<1>2. \A e : Queued(e)' <=> Queued(e)
  BY <1>1, Zenon DEF Queued
<1>3. QueueInv'
  BY <1>0, <1>2, Zenon DEF QueueInv, Unswept
<1>4. Distinct' /\ UnusedInv' /\ CountInv'
  BY <1>0, <1>1, Zenon DEF Distinct, UnusedInv, CountInv
<1>5. HeadInv'
  BY <1>0, <1>1, Zenon DEF HeadInv
<1>6. SendInv'
  BY <1>0, <1>1 DEF SendInv
<1> QED
  BY <1>3, <1>4, <1>5, <1>6, Zenon DEF LInv

\* What is known of an event that is being sent.
LEMMA SenderFacts ==
  ASSUME SendInv, NEW p \in Posters, NEW x, sending[p] = x, x # NoEvent
  PROVE  /\ pc[p] \in {"notify", "wait"}
         /\ ev[x].kind = "sync" /\ ev[x].deleted = 0
         /\ ev[x].signalled =>
              /\ Back(ev[x]) /\ (ev[x].m_bHasDestoryed \/ Parting(x))
              /\ \A i \in 1..Len(Queue) : Queue[i] = x => i = 1 /\ Parting(x)
         /\ \A q \in Posters : sending[q] = x => q = p
BY DEF SendInv

\* SendInv from what is known of the senders when none of them moves.
LEMMA SendersStay ==
  ASSUME sending' = sending, pc' = pc, NEW Q, Q = Queue',
         \A p \in Posters : \A x : x = sending[p] /\ x # NoEvent =>
            /\ pc[p] \in {"notify", "wait"}
            /\ ev'[x].kind = "sync" /\ ev'[x].deleted = 0
            /\ ev'[x].signalled => /\ Back(ev'[x]) /\ ev'[x].m_bHasDestoryed
                                   /\ \A i \in 1..Len(Q) : Q[i] # x
            /\ \A q \in Posters : sending[q] = x => q = p
  PROVE  SendInv'
BY DEF SendInv

\* A new event is appended.
LEMMA AcceptLInv ==
  ASSUME IInv, LInv, NEW e \in Events, NEW k \in {"plain", "sync"},
         ev[e].kind = "unused", ev' = [ev EXCEPT ![e].kind = k],
         Push(e), listEvents' = listEvents, iter' = iter,
         Holds' <=> Holds, loop' = "destroy" <=> loop = "destroy",
         loop' = "signal" <=> loop = "signal", loop' = "sweep" <=> loop = "sweep",
         loop' = "clear" <=> loop = "clear", loop' = "process" <=> loop = "process",
         \A p \in Posters : sending'[p] = sending[p] \/ (sending[p] = NoEvent /\ sending'[p] = e),
         \A p \in Posters : sending'[p] = e =>
            k = "sync" /\ \A q \in Posters : sending'[q] = e => q = p,
         \A p \in Posters : sending'[p] # NoEvent => pc'[p] \in {"notify", "wait"}
  PROVE  LInv'
<1>0. /\ ListInv /\ QueueInv /\ Distinct /\ HeadInv /\ SendInv /\ UnusedInv /\ CountInv
      /\ ev \in [Events -> EventObject] /\ NoEvent \notin Events
  BY Zenon DEF LInv, IInv, TypeOK
<1>1. /\ Queue \in Seq(Events) /\ Len(Queue) \in Nat
      /\ \A i \in 1..Len(Queue) : Queue[i] \in Events
      /\ Holds => Len(Queue) >= 1
  BY QueueFacts, Zenon
<1>2. Queue' = Append(Queue, e)
  BY PushQueue, Zenon
<1>3. /\ Len(Queue') = Len(Queue) + 1
      /\ \A i \in 1..Len(Queue) : Queue'[i] = Queue[i]
      /\ \A i \in 1..Len(Queue') : i \notin 1..Len(Queue) =>
           i = Len(Queue) + 1 /\ Queue'[i] = e
  BY <1>1, <1>2, Appended
<1>4. /\ ev[e] = Unused /\ ~Sent(e)
      /\ \A i \in 1..Len(Queue) : Queue[i] # e
  BY <1>0, Zenon DEF UnusedInv
<1>5. /\ \A x \in Events : x # e => ev'[x] = ev[x]
      /\ Fresh(ev'[e]) /\ ev'[e].kind = k /\ ~ev'[e].signalled
      /\ ev'[e].deleted = 0 /\ ev'[e].fired = 0
  BY <1>0, <1>4 DEF Unused, Fresh
<1>6. \A x \in Events : x # e => (Sent(x)' <=> Sent(x))
  BY <1>0, Zenon DEF Sent
<1>7. \A x \in Events : x # e => (Parting(x)' <=> Parting(x))
  <2>1. loop = "destroy" => Queue'[1] = Queue[1]
    BY <1>1, <1>3 DEF Holds
  <2> QED
    BY <1>5, <2>1, Zenon DEF Parting
<1>8. \A x \in Events : x # e => (Queued(x) => Queued(x)')
  BY <1>5, <1>6, <1>7, Zenon DEF Queued
<1>9. ListInv' /\ CountInv'
  BY <1>0, <1>5 DEF ListInv, CountInv
<1>10. QueueInv'
  <2> SUFFICES ASSUME NEW i \in 1..Len(Queue'), Unswept(i)', i > 1 \/ ~Holds',
                      NEW x, x = Queue'[i]
               PROVE  Queued(x)'
    BY Zenon DEF QueueInv, Queued, Sent, Parting
  <2>1. CASE i \in 1..Len(Queue)
    <3>1. Queued(Queue[i])
      BY <1>0, <2>1, Zenon DEF QueueInv, Unswept
    <3> QED
      BY <1>1, <1>3, <1>4, <1>8, <2>1, <3>1, Zenon
  <2>2. CASE i \notin 1..Len(Queue)
    BY <1>3, <1>5, <2>2, Zenon DEF Queued
  <2> QED
    BY <2>1, <2>2, Zenon
<1>11. Distinct'
  <2> SUFFICES ASSUME NEW i \in 1..Len(Queue'), NEW j \in 1..Len(Queue'),
                      i < j, Queue'[i] = Queue'[j], NEW x, x = Queue'[i]
               PROVE  i = 1 /\ Parting(x)'
    BY Zenon DEF Distinct, Parting
  <2>1. i \in 1..Len(Queue)
    BY <1>1, <1>3
  <2>2. j \in 1..Len(Queue)
    BY <1>3, <1>4, <2>1
  <2>3. Queue'[i] = Queue[i] /\ Queue'[j] = Queue[j]
    BY <1>3, <2>1, <2>2, Zenon
  <2>4. i = 1 /\ Parting(Queue[i])
    BY <1>0, <2>1, <2>2, <2>3, ZenonT(30) DEF Distinct
  <2> QED
    BY <1>1, <1>4, <1>7, <2>1, <2>3, <2>4, Zenon
<1>12. HeadInv'
  <2>1. CASE Holds
    <3>1. 1 \in 1..Len(Queue)
      BY <1>1, <2>1
    <3>2. /\ Queue'[1] = Queue[1] /\ Queue[1] \in Events /\ Queue[1] # e
          /\ ev'[Queue[1]] = ev[Queue[1]]
      BY <1>1, <1>3, <1>4, <1>5, <3>1, Zenon
    <3> QED
      BY <1>0, <1>6, <2>1, <3>2, Zenon DEF HeadInv
  <2>2. CASE ~Holds
    BY <2>2, Zenon DEF HeadInv, Holds
  <2> QED
    BY <2>1, <2>2, Zenon
<1>13. SendInv'
  <2> SUFFICES ASSUME NEW p \in Posters, NEW x, x = sending'[p], x # NoEvent
               PROVE  /\ pc'[p] \in {"notify", "wait"}
                      /\ ev'[x].kind = "sync" /\ ev'[x].deleted = 0
                      /\ ev'[x].signalled =>
                           /\ Back(ev'[x]) /\ (ev'[x].m_bHasDestoryed \/ Parting(x)')
                           /\ \A i \in 1..Len(Queue') : Queue'[i] = x => i = 1 /\ Parting(x)'
                      /\ \A q \in Posters : sending'[q] = x => q = p
    BY DEF SendInv, Parting
  <2>1. CASE x = e
    BY <1>5, <2>1, ZenonT(90)
  <2>2. CASE x # e
    <3>1. sending[p] = x /\ x \in Events
      BY <2>2, Zenon DEF IInv, TypeOK
    <3>2. ev'[x] = ev[x] /\ (Parting(x)' <=> Parting(x))
      BY <1>5, <1>7, <2>2, <3>1, Zenon
    <3>3. \A q \in Posters : sending'[q] = x => q = p
      BY <1>0, <3>1 DEF SendInv
    <3>4. \A i \in 1..Len(Queue') : Queue'[i] = x => i \in 1..Len(Queue) /\ Queue[i] = x
      BY <1>3, <2>2, <3>1, Zenon
    <3> QED
      BY <1>0, <3>1, <3>2, <3>3, <3>4 DEF SendInv
  <2> QED
    BY <2>1, <2>2, Zenon
<1>14. UnusedInv'
  <2> SUFFICES ASSUME NEW x \in Events, ev'[x].kind = "unused"
               PROVE  ev'[x] = Unused /\ ~Sent(x)' /\ \A i \in 1..Len(Queue') : Queue'[i] # x
    BY Zenon DEF UnusedInv
  <2>1. x # e
    BY <1>5, Zenon
  <2>2. ev'[x] = ev[x] /\ ~Sent(x)' /\ ev[x] = Unused /\ \A i \in 1..Len(Queue) : Queue[i] # x
    BY <1>0, <1>5, <1>6, <2>1, Zenon DEF UnusedInv
  <2> QED
    BY <1>3, <2>1, <2>2, Zenon
<1> QED
  BY <1>9, <1>10, <1>11, <1>12, <1>13, <1>14, Zenon DEF LInv

\* A signalled sender posts its event for the second time.
LEMMA WaitResultLInv ==
  ASSUME IInv, LInv, NEW p \in Posters, WaitResultAndDeleteThis(p)
  PROVE  LInv'
<1>0. /\ ListInv /\ QueueInv /\ Distinct /\ HeadInv /\ SendInv /\ UnusedInv /\ CountInv
      /\ ev \in [Events -> EventObject] /\ NoEvent \notin Events
      /\ sending \in [Posters -> Events \cup {NoEvent}] /\ SenderInv
  BY Zenon DEF LInv, IInv, TypeOK
<1>c. PICK e \in Events : e = sending[p]
  BY <1>0, Zenon DEF SenderInv, WaitResultAndDeleteThis
<1>a. /\ pc[p] = "wait" /\ ev[e].signalled /\ Push(e)
      /\ sending' = [sending EXCEPT ![p] = NoEvent]
      /\ UNCHANGED <<loopVars, ev>>
      /\ pc' = [pc EXCEPT ![p] = IF m_dwSize = 0 THEN "notify" ELSE "idle"]
  BY <1>c, Zenon DEF WaitResultAndDeleteThis
<1>1. /\ Queue \in Seq(Events) /\ Len(Queue) \in Nat
      /\ \A i \in 1..Len(Queue) : Queue[i] \in Events
      /\ Holds => Len(Queue) >= 1
  BY QueueFacts, Zenon
<1>2. Queue' = Append(Queue, e)
  BY <1>a, PushQueue, Zenon DEF loopVars
<1>3. /\ Len(Queue') = Len(Queue) + 1
      /\ \A i \in 1..Len(Queue) : Queue'[i] = Queue[i]
      /\ \A i \in 1..Len(Queue') : i \notin 1..Len(Queue) =>
           i = Len(Queue) + 1 /\ Queue'[i] = e
  BY <1>1, <1>2, Appended
<1>4. /\ Back(ev[e]) /\ (ev[e].m_bHasDestoryed \/ Parting(e))
      /\ \A i \in 1..Len(Queue) : Queue[i] = e => i = 1 /\ Parting(e)
      /\ \A q \in Posters : sending[q] = e => q = p
  BY <1>0, <1>a, <1>c DEF SendInv
<1>5. /\ loop' = loop /\ iter' = iter /\ listEvents' = listEvents /\ ev' = ev
      /\ (Holds' <=> Holds)
  BY <1>a, Zenon DEF loopVars, Holds
<1>6. /\ sending'[p] = NoEvent
      /\ \A q \in Posters : q # p => sending'[q] = sending[q]
      /\ \A q \in Posters : q # p => pc'[q] = pc[q]
  BY <1>0, <1>a, Zenon DEF IInv, TypeOK
<1>7. ~Sent(e)' /\ \A x \in Events : x # e => (Sent(x)' <=> Sent(x))
  BY <1>0, <1>4, <1>6, <1>c, Zenon DEF Sent
<1>8. \A x : Parting(x)' <=> Parting(x)
  <2>1. loop = "destroy" => Queue'[1] = Queue[1]
    BY <1>1, <1>3 DEF Holds
  <2> QED
    BY <1>5, <2>1, Zenon DEF Parting
<1>9. \A x \in Events : Queued(x) => Queued(x)'
  BY <1>5, <1>6, <1>8, Zenon DEF Queued, Sent
<1>10. ListInv' /\ CountInv'
  BY <1>0, <1>5, Zenon DEF ListInv, CountInv
<1>11. QueueInv'
  <2> SUFFICES ASSUME NEW i \in 1..Len(Queue'), Unswept(i)', i > 1 \/ ~Holds',
                      NEW x, x = Queue'[i]
               PROVE  Queued(x)'
    BY Zenon DEF QueueInv, Queued, Sent, Parting
  <2>1. CASE i \in 1..Len(Queue)
    <3>1. Queued(Queue[i])
      BY <1>0, <1>5, <2>1, Zenon DEF QueueInv, Unswept
    <3> QED
      BY <1>1, <1>3, <1>9, <2>1, <3>1, Zenon
  <2>2. CASE i \notin 1..Len(Queue)
    BY <1>3, <1>4, <1>5, <1>7, <1>8, <2>2, Zenon DEF Queued
  <2> QED
    BY <2>1, <2>2, Zenon
<1>12. Distinct'
  <2> SUFFICES ASSUME NEW i \in 1..Len(Queue'), NEW j \in 1..Len(Queue'),
                      i < j, Queue'[i] = Queue'[j]
               PROVE  i = 1 /\ Parting(Queue'[i])
    BY <1>5, <1>8, Zenon DEF Distinct, Parting
  <2>1. i \in 1..Len(Queue) /\ Queue'[i] = Queue[i]
    BY <1>1, <1>3
  <2>2. CASE j \in 1..Len(Queue)
    BY <1>0, <1>3, <2>1, <2>2, ZenonT(30) DEF Distinct
  <2>3. CASE j \notin 1..Len(Queue)
    BY <1>3, <1>4, <2>1, <2>3, ZenonT(30)
  <2> QED
    BY <2>2, <2>3, Zenon
<1>13. HeadInv'
  <2>1. CASE Holds
    <3>1. 1 \in 1..Len(Queue) /\ Queue'[1] = Queue[1] /\ Queue[1] \in Events
      BY <1>1, <1>3, <2>1
    <3>2. Sent(Queue[1])' => Sent(Queue[1])
      BY <1>7, <3>1, Zenon
    <3> QED
      BY <1>0, <1>5, <2>1, <3>1, <3>2, Zenon DEF HeadInv
  <2>2. CASE ~Holds
    BY <1>5, <2>2, Zenon DEF HeadInv, Holds
  <2> QED
    BY <2>1, <2>2, Zenon
<1>14. SendInv'
  <2> SUFFICES ASSUME NEW q \in Posters, sending'[q] # NoEvent
               PROVE  /\ pc'[q] \in {"notify", "wait"}
                      /\ ev[sending[q]].kind = "sync" /\ ev[sending[q]].deleted = 0
                      /\ ev[sending[q]].signalled =>
                           /\ Back(ev[sending[q]])
                           /\ ev[sending[q]].m_bHasDestoryed \/ Parting(sending[q])
                           /\ \A i \in 1..Len(Queue') :
                                Queue'[i] = sending[q] => i = 1 /\ Parting(sending[q])
                      /\ \A r \in Posters : sending'[r] = sending[q] => r = q
    BY <1>5, <1>6, <1>8, SMTT(30) DEF SendInv
  <2>1. q # p /\ sending'[q] = sending[q] /\ sending[q] # e /\ pc'[q] = pc[q]
    BY <1>4, <1>6, <1>c, Zenon
  <2>2. \A i \in 1..Len(Queue') : Queue'[i] = sending[q] => i \in 1..Len(Queue) /\ Queue[i] = sending[q]
    BY <1>3, <2>1, Zenon
  <2>3. \A r \in Posters : sending'[r] = sending[q] => r = q
    BY <1>0, <1>6, <2>1, SMTT(30) DEF SendInv
  <2> QED
    BY <1>0, <2>1, <2>2, <2>3, Zenon DEF SendInv
<1>15. UnusedInv'
  <2> SUFFICES ASSUME NEW x \in Events, ev[x].kind = "unused"
               PROVE  ev[x] = Unused /\ ~Sent(x)' /\ \A i \in 1..Len(Queue') : Queue'[i] # x
    BY <1>5, Zenon DEF UnusedInv
  <2>1. x # e
    BY <1>4, Zenon DEF Back
  <2> QED
    BY <1>0, <1>3, <1>7, <2>1, Zenon DEF UnusedInv
<1> QED
  BY <1>10, <1>11, <1>12, <1>13, <1>14, <1>15, Zenon DEF LInv

\* The loop thread changes the first event of the queue and goes on with it.
LEMMA HeadStep ==
  ASSUME IInv, LInv, NEW h \in Events, h = Queue[1], Len(Queue) >= 1,
         loop \in {"process", "callback", "signal"},
         loop' \in {"callback", "signal", "destroy"},
         Queue' = Queue, sending' = sending, pc' = pc,
         \A x \in Events : x # h => ev'[x] = ev[x],
         ev[h].kind # "unused", ev'[h].kind = ev[h].kind,
         ev'[h].deleted = 0, ev'[h].fired = 1,
         ev'[h].signalled /\ Sent(h) =>
           Back(ev'[h]) /\ loop' = "destroy" /\ ~ev'[h].m_bHasDestoryed,
         HeadInv'
  PROVE  LInv'
<1>0. /\ ListInv /\ QueueInv /\ Distinct /\ HeadInv /\ SendInv /\ UnusedInv /\ CountInv
      /\ ev \in [Events -> EventObject] /\ NoEvent \notin Events
      /\ sending \in [Posters -> Events \cup {NoEvent}]
  BY Zenon DEF LInv, IInv, TypeOK
<1>1. /\ Queue \in Seq(Events) /\ Len(Queue) \in Nat
      /\ \A i \in 1..Len(Queue) : Queue[i] \in Events
  BY QueueFacts, Zenon
<1>2. /\ \A x : ~Parting(x)
      /\ \A x : Sent(x)' <=> Sent(x)
      /\ Holds'
  BY Zenon DEF Parting, Sent, Holds
<1>3. \A i \in 1..Len(Queue) : Queue[i] = h => i = 1
  BY <1>0, <1>1, <1>2, SMTT(30) DEF Distinct
<1>4. ListInv' /\ CountInv'
  BY <1>0, <1>2, SMTT(30) DEF ListInv, CountInv
<1>5. QueueInv'
  <2> SUFFICES ASSUME NEW i \in 1..Len(Queue), i > 1, NEW x \in Events, x = Queue[i]
               PROVE  Queued(x)'
    BY <1>1, <1>2, Zenon DEF QueueInv, Queued, Sent, Parting
  <2>1. x # h
    BY <1>3, SMTT(30)
  <2>2. Queued(x)
    BY <1>0, Zenon DEF QueueInv, Unswept
  <2> QED
    BY <1>2, <2>1, <2>2, Zenon DEF Queued
<1>6. Distinct'
  <2>1. \A i, j \in 1..Len(Queue) : i < j => Queue[i] # Queue[j]
    BY <1>0, <1>2, Zenon DEF Distinct
  <2> QED
    BY <2>1, Zenon DEF Distinct
<1>7. SendInv'
  <2> SUFFICES ASSUME NEW p \in Posters, NEW x, x = sending[p], x # NoEvent
               PROVE  /\ pc[p] \in {"notify", "wait"}
                      /\ ev'[x].kind = "sync" /\ ev'[x].deleted = 0
                      /\ ev'[x].signalled =>
                           /\ Back(ev'[x]) /\ (ev'[x].m_bHasDestoryed \/ Parting(x)')
                           /\ \A i \in 1..Len(Queue) : Queue[i] = x => i = 1 /\ Parting(x)'
                      /\ \A q \in Posters : sending[q] = x => q = p
    BY SMTT(30) DEF SendInv, Parting
  <2>1. x \in Events /\ Sent(x)
    BY <1>0, Zenon DEF Sent
  <2>2. CASE x = h
    <3>1. /\ ev[x].kind = "sync" /\ pc[p] \in {"notify", "wait"}
          /\ \A q \in Posters : sending[q] = x => q = p
      BY <1>0, SenderFacts, SMTT(30)
    <3>2. ev'[x].signalled => Back(ev'[x]) /\ Parting(x)'
      BY <2>1, <2>2, <3>1, Zenon DEF Parting
    <3> QED
      BY <1>3, <2>2, <3>1, <3>2, Zenon
  <2>3. CASE x # h
    BY <1>0, <1>2, <2>1, <2>3, SMTT(30) DEF SendInv
  <2> QED
    BY <2>2, <2>3, Zenon
<1>8. UnusedInv'
  BY <1>0, <1>2, Zenon DEF UnusedInv
<1> QED
  BY <1>4, <1>5, <1>6, <1>7, <1>8, Zenon DEF LInv

\* OnEventFire enters the callback of an event that is there for the first time.
LEMMA OnEventFireLInv ==
  ASSUME IInv, LInv, OnEventFire
  PROVE  LInv'
<1>0. /\ QueueInv /\ SendInv /\ Queue \in Seq(Events) /\ Len(Queue) >= 1 /\ Len(Queue) \in Nat
      /\ Queue[1] = Head(listEvents) /\ Queue[1] \in Events
      /\ ev \in [Events -> EventObject] /\ loop = "process" /\ listEvents # <<>>
  BY QueueFacts DEF LInv, IInv, TypeOK, OnEventFire
<1>1. PICK h \in Events : h = Queue[1]
  BY <1>0, Zenon
<1>2. /\ Queue' = Queue /\ sending' = sending /\ pc' = pc
  BY Zenon DEF OnEventFire, Queue, Goto, queueVars, posterVars
<1>3. Queued(h)
  BY <1>0, <1>1 DEF QueueInv, Unswept, Holds
<1>4. CASE ev[h].m_bHasDestoryed
  <2>1. ev' = ev /\ loop' = "destroy"
    BY <1>0, <1>1, <1>4, Zenon DEF OnEventFire, Goto
  <2>2. Back(ev[h]) /\ ~Sent(h)
    BY <1>3, <1>4, Zenon DEF Queued, Fresh
  <2>3. HeadInv'
    BY <1>1, <1>2, <2>1, <2>2, Zenon DEF HeadInv, Holds, Back, Sent
  <2> QED
    BY <1>0, <1>1, <1>2, <2>1, <2>2, <2>3, HeadStep, Zenon DEF Back
<1>5. CASE ~ev[h].m_bHasDestoryed
  <2>1. Fresh(ev[h])
    BY <1>0, <1>3, <1>5, Zenon DEF Queued, Parting
  <2>2. ev' = [ev EXCEPT ![h].fired = @ + 1] /\ loop' = "callback"
    BY <1>0, <1>1, <1>5, Zenon DEF OnEventFire, Goto
  <2>3. /\ \A x \in Events : x # h => ev'[x] = ev[x]
        /\ ev'[h].kind = ev[h].kind /\ ev'[h].kind \in {"plain", "sync"}
        /\ ev'[h].deleted = 0 /\ ev'[h].fired = 1
        /\ ~ev'[h].signalled /\ ~ev'[h].m_bHasDestoryed
    BY <1>0, <2>1, <2>2 DEF Fresh, EventObject
  <2>4. HeadInv'
    BY <1>1, <1>2, <2>2, <2>3, Zenon DEF HeadInv, Holds
  <2> QED
    BY <1>0, <1>1, <1>2, <2>1, <2>2, <2>3, <2>4, HeadStep, Zenon DEF Fresh
<1> QED
  BY <1>4, <1>5, Zenon

\* The callback of a synchronous event leaves its result.
LEMMA EventReturnsLInv ==
  ASSUME IInv, LInv, EventReturns
  PROVE  LInv'
<1>0. /\ HeadInv /\ SendInv /\ loop = "callback" /\ Holds
      /\ ev \in [Events -> EventObject]
  BY Zenon DEF LInv, IInv, TypeOK, EventReturns, Holds
<1>1. /\ Len(Queue) >= 1 /\ Len(Queue) \in Nat
      /\ Queue[1] = Head(listEvents) /\ Queue[1] \in Events
  BY <1>0, QueueFacts
<1>2. PICK h \in Events : h = Queue[1]
  BY <1>1, Zenon
<1>3. /\ Queue' = Queue /\ sending' = sending /\ pc' = pc
  BY Zenon DEF EventReturns, Queue, Goto, queueVars, posterVars
<1>4. /\ ev[h].fired = 1 /\ ev[h].deleted = 0 /\ ev[h].kind \in {"plain", "sync"}
      /\ ~ev[h].m_bHasDestoryed /\ ~ev[h].signalled
  BY <1>0, <1>2, Zenon DEF HeadInv
<1>5. CASE ev[h].kind = "sync"
  <2>1. ev' = [ev EXCEPT ![h].m_Result = "fired"] /\ loop' = "signal"
    BY <1>1, <1>2, <1>5, Zenon DEF EventReturns, Goto
  <2>2. /\ \A x \in Events : x # h => ev'[x] = ev[x]
        /\ ev'[h].kind = ev[h].kind /\ ev'[h].fired = 1 /\ ev'[h].deleted = 0
        /\ ~ev'[h].signalled /\ ~ev'[h].m_bHasDestoryed /\ ev'[h].m_Result = "fired"
    BY <1>0, <1>4, <2>1 DEF EventObject
  <2>3. HeadInv'
    BY <1>2, <1>3, <1>5, <2>1, <2>2, Zenon DEF HeadInv, Holds
  <2> QED
    BY <1>0, <1>1, <1>2, <1>3, <1>5, <2>1, <2>2, <2>3, HeadStep, Zenon
<1>6. CASE ev[h].kind # "sync"
  <2>1. ev' = ev /\ loop' = "destroy"
    BY <1>1, <1>2, <1>6, Zenon DEF EventReturns, Goto
  <2>2. HeadInv'
    BY <1>2, <1>3, <1>4, <1>6, <2>1, Zenon DEF HeadInv, Holds
  <2> QED
    BY <1>0, <1>1, <1>2, <1>3, <1>4, <2>1, <2>2, HeadStep, Zenon
<1> QED
  BY <1>5, <1>6, Zenon

\* From the signal on, the sender may post the event again.
LEMMA SignalLInv ==
  ASSUME IInv, LInv, Signal
  PROVE  LInv'
<1>0. /\ HeadInv /\ SendInv /\ loop = "signal" /\ Holds /\ loop' = "destroy"
      /\ ev \in [Events -> EventObject]
  BY Zenon DEF LInv, IInv, TypeOK, Signal, Holds, Goto
<1>1. /\ Len(Queue) >= 1 /\ Len(Queue) \in Nat
      /\ Queue[1] = Head(listEvents) /\ Queue[1] \in Events
  BY <1>0, QueueFacts
<1>2. PICK h \in Events : h = Queue[1]
  BY <1>1, Zenon
<1>3. /\ Queue' = Queue /\ sending' = sending /\ pc' = pc
      /\ ev' = [ev EXCEPT ![h].signalled = TRUE]
  BY <1>1, <1>2, Zenon DEF Signal, Queue, Goto, queueVars, posterVars
<1>4. /\ ev[h].fired = 1 /\ ev[h].deleted = 0 /\ ev[h].kind = "sync"
      /\ ~ev[h].m_bHasDestoryed /\ ev[h].m_Result = "fired"
  BY <1>0, <1>2, Zenon DEF HeadInv
<1>5. /\ \A x \in Events : x # h => ev'[x] = ev[x]
      /\ ev'[h].kind = "sync" /\ ev'[h].fired = 1 /\ ev'[h].deleted = 0
      /\ ev'[h].signalled /\ ~ev'[h].m_bHasDestoryed /\ ev'[h].m_Result = "fired"
  BY <1>0, <1>3, <1>4 DEF EventObject
<1>6. Back(ev'[h])
  BY <1>5, Zenon DEF Back
<1>7. HeadInv'
  BY <1>0, <1>2, <1>3, <1>5, <1>6, Zenon DEF HeadInv, Holds
<1>8. /\ loop \in {"process", "callback", "signal"}
      /\ loop' \in {"callback", "signal", "destroy"}
      /\ ev[h].kind # "unused" /\ ev'[h].kind = ev[h].kind
  BY <1>0, <1>4, <1>5, Zenon
<1> QED
  BY <1>0, <1>1, <1>2, <1>3, <1>5, <1>6, <1>7, <1>8, HeadStep, ZenonT(30)

\* An event is deleted only when nobody else holds it.
LEMMA DestroyEventLInv ==
  ASSUME IInv, LInv, DestroyEvent
  PROVE  LInv'
<1>0. /\ ListInv /\ QueueInv /\ Distinct /\ HeadInv /\ SendInv /\ UnusedInv /\ CountInv
      /\ ev \in [Events -> EventObject] /\ NoEvent \notin Events
      /\ sending \in [Posters -> Events \cup {NoEvent}]
      /\ listEvents \in Seq(Events) /\ m_Events \in Seq(Events)
  BY Zenon DEF LInv, IInv, TypeOK
<1>1. loop = "destroy" /\ loop' = "process" /\ Holds /\ ~Holds'
      /\ sending' = sending /\ pc' = pc
  BY Zenon DEF DestroyEvent, Holds, posterVars
<1>2. /\ Queue \in Seq(Events) /\ Len(Queue) \in Nat /\ Len(Queue) >= 1
      /\ \A i \in 1..Len(Queue) : Queue[i] \in Events
      /\ Queue[1] = Head(listEvents) /\ listEvents # <<>>
  BY <1>1, QueueFacts, Zenon
<1>3. PICK h \in Events : h = Queue[1]
  BY <1>2
<1>4. Queue' = Tail(Queue)
  BY <1>0, <1>2, TailOfBoth, ZenonT(30) DEF DestroyEvent, Queue, queueVars
<1>5. /\ Len(Queue') = Len(Queue) - 1
      /\ \A i \in 1..(Len(Queue) - 1) : Queue'[i] = Queue[i + 1]
  BY <1>2, <1>4, TailShifts, Zenon
<1>6. \A i \in 1..Len(Queue') :
        i + 1 \in 1..Len(Queue) /\ i + 1 > 1 /\ Queue'[i] = Queue[i + 1]
  BY <1>2, <1>5
<1>7. ev' = [ev EXCEPT ![h] = OnDestorySelf(@)]
  BY <1>2, <1>3, Zenon DEF DestroyEvent
<1>8. /\ \A x \in Events : x # h => ev'[x] = ev[x]
      /\ ev'[h] = OnDestorySelf(ev[h])
  BY <1>0, <1>7, Zenon
<1>9. /\ ev[h] \in EventObject
      /\ ev[h].fired = 1 /\ ev[h].deleted = 0 /\ ev[h].kind \in {"plain", "sync"}
      /\ ev[h].kind = "sync" => Back(ev[h])
      /\ ev[h].m_bHasDestoryed => ev[h].kind = "sync" /\ ~Sent(h)
  BY <1>0, <1>1, <1>3, Zenon DEF HeadInv
<1>10. /\ \A x : ~Parting(x)' /\ (Sent(x)' <=> Sent(x))
       /\ \A x : x # h => ~Parting(x)
  BY <1>1, <1>3, Zenon DEF Parting, Sent
<1>11. /\ ev'[h].kind = ev[h].kind /\ ev'[h].fired = 1
       /\ ev'[h].signalled = ev[h].signalled /\ ev'[h].m_Result = ev[h].m_Result
  BY <1>8, <1>9 DEF OnDestorySelf, EventObject
<1>14. Distinct'
  <2> SUFFICES ASSUME NEW i \in 1..Len(Queue'), NEW j \in 1..Len(Queue'),
                      i < j, Queue'[i] = Queue'[j]
               PROVE  FALSE
    BY Zenon DEF Distinct
  <2>1. /\ i + 1 \in 1..Len(Queue) /\ j + 1 \in 1..Len(Queue) /\ i + 1 < j + 1
        /\ Queue[i + 1] = Queue[j + 1] /\ i + 1 # 1
    BY <1>2, <1>5, <1>6
  <2> QED
    BY <1>0, <2>1, Zenon DEF Distinct
<1>15. ASSUME NEW p \in Posters, NEW x, sending[p] = x, x # NoEvent, ev[x].signalled
       PROVE  \A i \in 1..Len(Queue') : Queue'[i] # x
  <2>1. \A i \in 1..Len(Queue) : Queue[i] = x => i = 1
    BY <1>0, <1>15, SenderFacts, SMTT(30)
  <2> QED
    BY <1>6, <2>1
<1>16. UnusedInv'
  <2> SUFFICES ASSUME NEW x \in Events, ev'[x].kind = "unused"
               PROVE  ev'[x] = Unused /\ ~Sent(x) /\ \A i \in 1..Len(Queue') : Queue'[i] # x
    BY <1>10, Zenon DEF UnusedInv
  <2>1. x # h
    BY <1>9, <1>11, Zenon
  <2>2. ev'[x] = ev[x] /\ ev[x] = Unused /\ ~Sent(x) /\ \A i \in 1..Len(Queue) : Queue[i] # x
    BY <1>0, <1>8, <2>1, Zenon DEF UnusedInv
  <2> QED
    BY <1>6, <2>2, Zenon
<1>12. CASE ev[h].kind = "sync" /\ ~ev[h].m_bHasDestoryed
  <2>1. ev'[h].m_bHasDestoryed /\ ev'[h].deleted = 0
    BY <1>8, <1>9, <1>12, Zenon DEF OnDestorySelf, EventObject
  <2>2. Back(ev'[h])
    BY <1>9, <1>11, <1>12, <2>1, Zenon DEF Back
  <2>3. ListInv' /\ CountInv' /\ HeadInv'
    BY <1>0, <1>1, <1>8, <1>11, <2>1, SMTT(30) DEF ListInv, CountInv, HeadInv
  <2>4. QueueInv'
    <3> SUFFICES ASSUME NEW i \in 1..Len(Queue'), NEW x, x = Queue'[i]
                 PROVE  Queued(x)'
      BY Zenon DEF QueueInv, Queued, Sent, Parting
    <3>1. x \in Events /\ Queued(x)
      BY <1>0, <1>1, <1>2, <1>6, Zenon DEF QueueInv, Unswept
    <3>2. CASE x = h
      <4>1. ~Sent(h)
        BY <1>9, <3>1, <3>2, SMTT(30) DEF Queued, Fresh
      <4> QED
        BY <1>10, <2>1, <2>2, <3>2, <4>1, Zenon DEF Queued
    <3>3. CASE x # h
      BY <1>8, <1>10, <3>1, <3>3, Zenon DEF Queued
    <3> QED
      BY <3>2, <3>3, Zenon
  <2>6. SendInv'
    <3> SUFFICES ASSUME NEW p \in Posters, NEW x, x = sending[p], x # NoEvent
                 PROVE  /\ pc[p] \in {"notify", "wait"}
                        /\ ev'[x].kind = "sync" /\ ev'[x].deleted = 0
                        /\ ev'[x].signalled =>
                             /\ Back(ev'[x]) /\ ev'[x].m_bHasDestoryed
                             /\ \A i \in 1..Len(Queue') : Queue'[i] # x
                        /\ \A q \in Posters : sending[q] = x => q = p
      BY <1>1, SMTT(30) DEF SendInv, Parting
    <3>1. x \in Events
      BY <1>0, Zenon
    <3>2. ev[x].signalled => \A i \in 1..Len(Queue') : Queue'[i] # x
      BY <1>15, Zenon
    <3>3. CASE x = h
      <4>1. /\ pc[p] \in {"notify", "wait"} /\ \A q \in Posters : sending[q] = x => q = p
        BY <1>0, SenderFacts, Zenon
      <4> QED
        BY <1>11, <1>12, <2>1, <2>2, <3>2, <3>3, <4>1, Zenon
    <3>4. CASE x # h
      <4>1. ev'[x] = ev[x] /\ ~Parting(x)
        BY <1>8, <1>10, <3>1, <3>4, Zenon
      <4> QED
        BY <1>0, <3>2, <4>1, SenderFacts, SMTT(30)
    <3> QED
      BY <3>3, <3>4, Zenon
  <2> QED
    BY <1>14, <1>16, <2>3, <2>4, <2>6, Zenon DEF LInv
<1>13. CASE ~(ev[h].kind = "sync" /\ ~ev[h].m_bHasDestoryed)
  <2>1. ev'[h].deleted = 1
    BY <1>8, <1>9, <1>13 DEF OnDestorySelf, EventObject
  <2>2. ~Sent(h)
    BY <1>0, <1>9, <1>13 DEF SendInv, Sent
  <2>3. \A i \in 1..Len(Queue') : Queue'[i] # h /\ Queue'[i] \in Events
    BY <1>0, <1>2, <1>3, <1>6, <1>13, SMTT(30) DEF Distinct, Parting
  <2>4. ListInv' /\ CountInv' /\ HeadInv'
    BY <1>0, <1>1, <1>8, <1>11, <2>1, SMTT(30) DEF ListInv, CountInv, HeadInv
  <2>5. QueueInv'
    <3> SUFFICES ASSUME NEW i \in 1..Len(Queue'), NEW x, x = Queue'[i]
                 PROVE  Queued(x)'
      BY Zenon DEF QueueInv, Queued, Sent, Parting
    <3>1. x \in Events /\ Queued(x) /\ x # h
      BY <1>0, <1>1, <1>2, <1>6, <2>3, Zenon DEF QueueInv, Unswept
    <3> QED
      BY <1>8, <1>10, <3>1, Zenon DEF Queued
  <2>7. SendInv'
    <3> SUFFICES ASSUME NEW p \in Posters, NEW x, x = sending[p], x # NoEvent
                 PROVE  /\ pc[p] \in {"notify", "wait"}
                        /\ ev'[x].kind = "sync" /\ ev'[x].deleted = 0
                        /\ ev'[x].signalled =>
                             /\ Back(ev'[x]) /\ ev'[x].m_bHasDestoryed
                             /\ \A i \in 1..Len(Queue') : Queue'[i] # x
                        /\ \A q \in Posters : sending[q] = x => q = p
      BY <1>1, SMTT(30) DEF SendInv, Parting
    <3>1. x \in Events /\ x # h
      BY <1>0, <2>2, Zenon DEF Sent
    <3>2. ev[x].signalled => \A i \in 1..Len(Queue') : Queue'[i] # x
      BY <1>15, Zenon
    <3>3. ev'[x] = ev[x] /\ ~Parting(x)
      BY <1>8, <1>10, <3>1, Zenon
    <3> QED
      BY <1>0, <3>2, <3>3, SenderFacts, SMTT(30)
  <2> QED
    BY <1>14, <1>16, <2>4, <2>5, <2>7, Zenon DEF LInv
<1> QED
  BY <1>12, <1>13, Zenon

\* SendEvent on the loop thread uses an event the queue never sees.
LEMMA LoopSendLInv ==
  ASSUME IInv, LInv, NEW e \in Events, LoopSendEvent(e)
  PROVE  LInv'
<1>0. /\ ListInv /\ QueueInv /\ Distinct /\ HeadInv /\ SendInv /\ UnusedInv /\ CountInv
      /\ ev \in [Events -> EventObject] /\ NoEvent \notin Events
      /\ sending \in [Posters -> Events \cup {NoEvent}]
  BY Zenon DEF LInv, IInv, TypeOK
<1>1. /\ loop \in Callbacks /\ ev[e].kind = "unused"
      /\ UNCHANGED <<loopVars, posterVars, m_Events>>
  BY Zenon DEF LoopSendEvent, queueVars
<1>2. /\ Queue' = Queue /\ sending' = sending /\ pc' = pc /\ loop' = loop
      /\ (Holds' <=> Holds) /\ listEvents' = listEvents /\ iter' = iter
  BY <1>1, Zenon DEF Queue, Holds, loopVars, posterVars
<1>3. /\ ev[e] = Unused /\ ~Sent(e) /\ \A i \in 1..Len(Queue) : Queue[i] # e
  BY <1>0, <1>1, Zenon DEF UnusedInv
<1>4. /\ \A x \in Events : x # e => ev'[x] = ev[x]
      /\ ev'[e].kind = "plain" /\ ev'[e].fired = 1 /\ ev'[e].deleted = 1
  <2> DEFINE ev1 == [ev EXCEPT ![e].kind = "plain"]
             ev2 == [ev1 EXCEPT ![e].fired = @ + 1]
  <2>1. ev1 \in [Events -> EventObject]
    BY <1>0, EventUpdates, ZenonT(30)
  <2>2. ev2 \in [Events -> EventObject]
    <3> HIDE DEF ev1
    <3>1. [ev1[e] EXCEPT !.fired = @ + 1] \in EventObject
      BY <2>1 DEF EventObject
    <3> QED
      BY <2>1, <3>1, Zenon
  <2>3. /\ ev1[e].kind = "plain" /\ ev1[e].fired = 0 /\ ev1[e].deleted = 0
        /\ \A x \in Events : x # e => ev1[x] = ev[x]
    BY <1>0, <1>3 DEF Unused
  <2>4. ev' = [ev2 EXCEPT ![e].deleted = @ + 1]
    BY ZenonT(90) DEF LoopSendEvent
  <2> HIDE DEF ev1
  <2>5. /\ ev2[e].kind = "plain" /\ ev2[e].fired = 1 /\ ev2[e].deleted = 0
        /\ \A x \in Events : x # e => ev2[x] = ev[x]
    BY <2>1, <2>3 DEF EventObject
  <2> HIDE DEF ev2
  <2> QED
    BY <2>2, <2>4, <2>5 DEF EventObject
<1>5. /\ \A x : Sent(x)' <=> Sent(x)
      /\ \A x : ~Parting(x) /\ ~Parting(x)'
  BY <1>1, <1>2, Zenon DEF Sent, Parting, Callbacks
<1>6. ListInv' /\ CountInv'
  BY <1>0, <1>2, <1>4, SMTT(30) DEF ListInv, CountInv
<1>7. \A i \in 1..Len(Queue) : Queue[i] \in Events /\ ev'[Queue[i]] = ev[Queue[i]]
  BY <1>3, <1>4, QueueFacts, Zenon
<1>8. QueueInv'
  <2> SUFFICES ASSUME NEW i \in 1..Len(Queue), i > 1 \/ ~Holds, NEW x, x = Queue[i]
               PROVE  Queued(x)'
    BY <1>2, Zenon DEF QueueInv, Queued, Sent, Parting
  <2>1. Queued(x)
    BY <1>0, <1>1, Zenon DEF QueueInv, Unswept, Callbacks
  <2> QED
    BY <1>5, <1>7, <2>1, Zenon DEF Queued
<1>9. Distinct'
  <2>1. \A i, j \in 1..Len(Queue) : i < j => Queue[i] # Queue[j]
    BY <1>0, <1>5, Zenon DEF Distinct
  <2> QED
    BY <1>2, <2>1, Zenon DEF Distinct
<1>10. HeadInv'
  <2>1. CASE Holds
    <3>1. 1 \in 1..Len(Queue)
      BY <2>1, QueueFacts
    <3> QED
      BY <1>0, <1>1, <1>2, <1>7, <2>1, <3>1, Zenon DEF HeadInv, Callbacks
  <2>2. CASE ~Holds
    BY <1>2, <2>2, Zenon DEF HeadInv, Holds
  <2> QED
    BY <2>1, <2>2, Zenon
<1>11. SendInv'
  <2> SUFFICES ASSUME NEW p \in Posters, NEW x, x = sending[p], x # NoEvent
               PROVE  /\ pc[p] \in {"notify", "wait"}
                      /\ ev'[x].kind = "sync" /\ ev'[x].deleted = 0
                      /\ ev'[x].signalled =>
                           /\ Back(ev'[x]) /\ ev'[x].m_bHasDestoryed
                           /\ \A i \in 1..Len(Queue) : Queue[i] # x
                      /\ \A q \in Posters : sending[q] = x => q = p
    BY <1>2, SendersStay
  <2>1. x \in Events /\ x # e
    BY <1>0, <1>3, Zenon DEF Sent
  <2> QED
    BY <1>0, <1>4, <1>5, <2>1, SenderFacts, SMTT(30)
<1>12. UnusedInv'
  <2> SUFFICES ASSUME NEW x \in Events, ev'[x].kind = "unused"
               PROVE  ev'[x] = Unused /\ ~Sent(x) /\ \A i \in 1..Len(Queue) : Queue[i] # x
    BY <1>2, <1>5, Zenon DEF UnusedInv
  <2>1. x # e
    BY <1>4, Zenon
  <2> QED
    BY <1>0, <1>4, <2>1, Zenon DEF UnusedInv
<1> QED
  BY <1>6, <1>8, <1>9, <1>10, <1>11, <1>12, Zenon DEF LInv

\* Close destroys an event of the list and goes on to the next one.
LEMMA DestroyPendingLInv ==
  ASSUME IInv, LInv, DestroyPending
  PROVE  LInv'
<1>0. /\ ListInv /\ QueueInv /\ Distinct /\ HeadInv /\ SendInv /\ UnusedInv /\ CountInv
      /\ ev \in [Events -> EventObject] /\ NoEvent \notin Events
      /\ sending \in [Posters -> Events \cup {NoEvent}]
      /\ m_Events \in Seq(Events) /\ iter \in Nat \ {0}
  BY Zenon DEF LInv, IInv, TypeOK
<1>1. /\ loop = "sweep" /\ ~Holds /\ listEvents = <<>> /\ Queue = m_Events
      /\ sending' = sending /\ pc' = pc /\ m_Events' = m_Events
  <2>1. loop = "sweep" /\ sending' = sending /\ pc' = pc /\ m_Events' = m_Events
    BY Zenon DEF DestroyPending, posterVars, queueVars
  <2>2. ~Holds /\ listEvents = <<>>
    BY <1>0, <2>1, Zenon DEF ListInv, Holds
  <2> QED
    BY <1>0, <2>1, <2>2 DEF Queue
<1>2. listEvents' = listEvents /\ Queue' = Queue
  BY <1>1, ZenonT(30) DEF DestroyPending, Goto, Queue
<1>3. CASE iter <= Len(m_Events)
  <2>1. iter \in 1..Len(Queue)
    BY <1>0, <1>1, <1>3
  <2>2. PICK h \in Events : h = Queue[iter]
    BY <2>1, QueueFacts, Zenon
  <2>3. /\ ev' = [ev EXCEPT ![h] = OnDestorySelf(@)] /\ iter' = iter + 1
        /\ loop' = "sweep" /\ ~Holds'
    BY <1>1, <1>3, <2>2, Zenon DEF DestroyPending, Holds
  <2>4. /\ \A x \in Events : x # h => ev'[x] = ev[x]
        /\ ev'[h] = OnDestorySelf(ev[h]) /\ ev[h] \in EventObject
    BY <1>0, <2>3, Zenon
  <2>5. /\ \A x : ~Parting(x) /\ ~Parting(x)' /\ (Sent(x)' <=> Sent(x))
    BY <1>1, <2>3, Zenon DEF Parting, Sent
  <2>6. /\ Queued(h)
        /\ \A i \in 1..Len(Queue) : Queue[i] = h => i = iter
    BY <1>0, <1>1, <2>1, <2>2, <2>5 DEF QueueInv, Unswept, Distinct
  <2>7. /\ ev'[h].kind = ev[h].kind /\ ev'[h].fired = ev[h].fired /\ ev'[h].deleted <= 1
        /\ ev'[h].signalled = ev[h].signalled
        /\ Sent(h) => ev'[h].deleted = 0 /\ ~ev[h].signalled
    <3>1. CASE Fresh(ev[h])
      <4>1. Sent(h) => ev[h].kind = "sync"
        BY <1>0, SenderFacts, SMTT(30) DEF Sent
      <4> QED
        BY <2>4, <3>1, <4>1 DEF Fresh, OnDestorySelf, EventObject
    <3>2. CASE Back(ev[h]) /\ ~Sent(h)
      <4>1. CASE ev[h].m_bHasDestoryed
        <5>1. ev'[h] = [ev[h] EXCEPT !.deleted = @ + 1] /\ ev[h].deleted = 0
          BY <2>4, <3>2, <4>1, Zenon DEF Back, OnDestorySelf
        <5> QED
          BY <2>4, <3>2, <5>1 DEF EventObject
      <4>2. CASE ~ev[h].m_bHasDestoryed
        <5>1. ev'[h] = [ev[h] EXCEPT !.m_bHasDestoryed = TRUE] /\ ev[h].deleted = 0
          BY <2>4, <3>2, <4>2, Zenon DEF Back, OnDestorySelf
        <5> QED
          BY <2>4, <3>2, <5>1 DEF EventObject
      <4> QED
        BY <4>1, <4>2, Zenon
    <3> QED
      BY <2>6, <3>1, <3>2, Zenon DEF Queued
  <2>8. ListInv' /\ HeadInv'
    BY <1>1, <1>2, <2>3, Zenon DEF ListInv, HeadInv
  <2>9. CountInv'
    BY <1>0, <2>4, <2>7, Zenon DEF CountInv
  <2>10. QueueInv'
    <3> SUFFICES ASSUME NEW i \in 1..Len(Queue), i >= iter + 1, NEW x, x = Queue[i]
                 PROVE  Queued(x)'
      BY <1>2, <2>3, Zenon DEF QueueInv, Queued, Unswept, Sent, Parting
    <3>1. x # h /\ x \in Events /\ i >= iter
      BY <1>0, <2>1, <2>6, QueueFacts, SMTT(30)
    <3>2. Queued(x)
      BY <1>0, <1>1, <3>1, Zenon DEF QueueInv, Unswept
    <3> QED
      BY <2>4, <2>5, <3>1, <3>2, Zenon DEF Queued
  <2>11. Distinct'
    <3>1. \A i, j \in 1..Len(Queue) : i < j => Queue[i] # Queue[j]
      BY <1>0, <2>5, Zenon DEF Distinct
    <3> QED
      BY <1>2, <3>1, Zenon DEF Distinct
  <2>12. SendInv'
    <3> SUFFICES ASSUME NEW p \in Posters, NEW x, x = sending[p], x # NoEvent
                 PROVE  /\ pc[p] \in {"notify", "wait"}
                        /\ ev'[x].kind = "sync" /\ ev'[x].deleted = 0
                        /\ ev'[x].signalled =>
                             /\ Back(ev'[x]) /\ ev'[x].m_bHasDestoryed
                             /\ \A i \in 1..Len(Queue) : Queue[i] # x
                        /\ \A q \in Posters : sending[q] = x => q = p
      BY <1>1, <1>2, SendersStay
    <3>1. x \in Events /\ Sent(x)
      BY <1>0, Zenon DEF Sent
    <3>2. CASE x = h
      <4>1. /\ ev[x].kind = "sync" /\ pc[p] \in {"notify", "wait"}
            /\ \A q \in Posters : sending[q] = x => q = p
        BY <1>0, SenderFacts
      <4> QED
        BY <2>7, <3>1, <3>2, <4>1, Zenon
    <3>3. CASE x # h
      BY <1>0, <2>4, <2>5, <3>1, <3>3, SenderFacts, SMTT(30)
    <3> QED
      BY <3>2, <3>3, Zenon
  <2>13. UnusedInv'
    <3> SUFFICES ASSUME NEW x \in Events, ev'[x].kind = "unused"
                 PROVE  ev'[x] = Unused /\ ~Sent(x) /\ \A i \in 1..Len(Queue) : Queue[i] # x
      BY <1>2, <2>5, Zenon DEF UnusedInv
    <3>1. x # h
      BY <2>6, <2>7, Zenon DEF Queued, Fresh, Back
    <3> QED
      BY <1>0, <2>4, <3>1, Zenon DEF UnusedInv
  <2> QED
    BY <2>8, <2>9, <2>10, <2>11, <2>12, <2>13, Zenon DEF LInv
<1>4. CASE ~(iter <= Len(m_Events))
  <2>1. ev' = ev /\ loop' = "clear" /\ ~Holds'
    BY <1>4, Zenon DEF DestroyPending, Goto, Holds
  <2>2. \A x : ~Parting(x) /\ ~Parting(x)' /\ (Sent(x)' <=> Sent(x))
    BY <1>1, <2>1, Zenon DEF Parting, Sent
  <2>3. ListInv' /\ HeadInv' /\ QueueInv' /\ CountInv'
    BY <1>0, <1>1, <1>2, <2>1 DEF ListInv, HeadInv, QueueInv, Unswept, CountInv
  <2>4. Distinct' /\ UnusedInv'
    BY <1>0, <1>2, <2>1, <2>2 DEF Distinct, UnusedInv
  <2>5. SendInv'
    <3> SUFFICES ASSUME NEW p \in Posters, NEW x, x = sending[p], x # NoEvent
                 PROVE  /\ pc[p] \in {"notify", "wait"}
                        /\ ev'[x].kind = "sync" /\ ev'[x].deleted = 0
                        /\ ev'[x].signalled =>
                             /\ Back(ev'[x]) /\ ev'[x].m_bHasDestoryed
                             /\ \A i \in 1..Len(Queue) : Queue[i] # x
                        /\ \A q \in Posters : sending[q] = x => q = p
      BY <1>1, <1>2, SendersStay
    <3>1. /\ pc[p] \in {"notify", "wait"}
          /\ ev[x].kind = "sync" /\ ev[x].deleted = 0
          /\ ev[x].signalled =>
               /\ Back(ev[x]) /\ (ev[x].m_bHasDestoryed \/ Parting(x))
               /\ \A i \in 1..Len(Queue) : Queue[i] = x => i = 1 /\ Parting(x)
          /\ \A q \in Posters : sending[q] = x => q = p
      BY <1>0, SenderFacts
    <3> QED BY <2>1, <2>2, <3>1, Zenon
  <2> QED
    BY <2>3, <2>4, <2>5, Zenon DEF LInv
<1> QED
  BY <1>3, <1>4, Zenon

\* Close forgets the list.
LEMMA ClearPendingLInv ==
  ASSUME IInv, LInv, ClearPending
  PROVE  LInv'
<1>0. /\ ListInv /\ SendInv /\ UnusedInv /\ CountInv
  BY Zenon DEF LInv
<1>1. /\ loop = "clear" /\ loop' = "closed" /\ ev' = ev /\ sending' = sending /\ pc' = pc
      /\ listEvents' = listEvents /\ m_Events' = <<>>
  BY Zenon DEF ClearPending, Goto, posterVars
<1>2. listEvents = <<>> /\ ~Holds'
  BY <1>0, <1>1, Zenon DEF ListInv, Holds
<1>3. Queue' = <<>> /\ Len(Queue') = 0
  BY <1>1, <1>2 DEF Queue
<1>4. \A x : ~Parting(x) /\ ~Parting(x)' /\ (Sent(x)' <=> Sent(x))
  BY <1>1, Zenon DEF Parting, Sent
<1>5. ListInv' /\ HeadInv' /\ QueueInv' /\ CountInv' /\ Distinct'
  <2>1. ~(loop' # "process" /\ listEvents' # <<>>) /\ loop' # "signal" /\ loop' # "destroy"
    BY <1>1, <1>2, Zenon
  <2>2. ListInv' /\ HeadInv' /\ CountInv'
    BY <1>0, <1>1, <1>2, <2>1, Zenon DEF ListInv, HeadInv, CountInv
  <2>3. \A i : i \notin 1..Len(Queue')
    BY <1>3
  <2>4. QueueInv' /\ Distinct'
    BY <2>3, Zenon DEF QueueInv, Distinct
  <2> QED BY <2>2, <2>4, Zenon
<1>6. UnusedInv'
  BY <1>0, <1>1, <1>3, <1>4, SMTT(30) DEF UnusedInv
<1>8. SendInv'
  <2> SUFFICES ASSUME NEW p \in Posters, NEW x, x = sending[p], x # NoEvent
               PROVE  /\ pc[p] \in {"notify", "wait"}
                      /\ ev'[x].kind = "sync" /\ ev'[x].deleted = 0
                      /\ ev'[x].signalled =>
                           /\ Back(ev'[x]) /\ ev'[x].m_bHasDestoryed
                           /\ \A i \in 1..Len(Queue') : Queue'[i] # x
                      /\ \A q \in Posters : sending[q] = x => q = p
    BY <1>1, SendersStay
  <2>1. \A i \in 1..Len(Queue') : Queue'[i] # x
    BY <1>3
  <2>2. /\ pc[p] \in {"notify", "wait"}
        /\ ev[x].kind = "sync" /\ ev[x].deleted = 0
        /\ ev[x].signalled => Back(ev[x]) /\ (ev[x].m_bHasDestoryed \/ Parting(x))
        /\ \A q \in Posters : sending[q] = x => q = p
    BY <1>0, SenderFacts
  <2> QED BY <1>1, <1>4, <2>1, <2>2, Zenon
<1> QED
  BY <1>5, <1>6, <1>8, Zenon DEF LInv

-----------------------------------------------------------------------------
\* A step of another thread preserves the invariant.
LEMMA PosterStepLInv ==
  ASSUME IInv, LInv, NEW p \in Posters, PosterStep(p)
  PROVE  LInv'
<1>0. /\ ListInv /\ SendInv /\ sending \in [Posters -> Events \cup {NoEvent}]
      /\ pc \in [Posters -> PosterPoints] /\ NoEvent \notin Events
  BY Zenon DEF LInv, IInv, TypeOK
<1>1. \A q \in Posters : sending[q] # NoEvent => pc[q] \in {"notify", "wait"}
  BY <1>0, Zenon DEF SendInv
<1>2. ASSUME UNCHANGED loopVars
      PROVE  /\ listEvents' = listEvents /\ iter' = iter /\ loop' = loop
             /\ (Holds' <=> Holds)
  BY <1>2, Zenon DEF loopVars, Holds
<1>3. ASSUME NEW e \in Events, PostEvent(p, e)
      PROVE  LInv'
  <2>1. /\ ev[e].kind = "unused" /\ ev' = [ev EXCEPT ![e].kind = "plain"] /\ Push(e)
        /\ UNCHANGED loopVars /\ sending' = sending
        /\ pc[p] = "idle" /\ \A q \in Posters : q # p => pc'[q] = pc[q]
    BY <1>0, <1>3, Zenon DEF PostEvent
  <2>2. \A q \in Posters : sending[q] # e
    BY <2>1, Zenon DEF LInv, UnusedInv, Sent
  <2>3. \A q \in Posters : sending[q] # NoEvent => pc'[q] \in {"notify", "wait"}
    BY <1>1, <2>1, Zenon
  <2> QED
    BY <1>2, <2>1, <2>2, <2>3, AcceptLInv, ZenonT(30)
<1>4. ASSUME NEW e \in Events, SendEvent(p, e)
      PROVE  LInv'
  <2>1. /\ ev[e].kind = "unused" /\ ev' = [ev EXCEPT ![e].kind = "sync"] /\ Push(e)
        /\ UNCHANGED loopVars /\ sending' = [sending EXCEPT ![p] = e]
        /\ pc[p] = "idle" /\ \A q \in Posters : q # p => pc'[q] = pc[q]
        /\ pc'[p] \in {"notify", "wait"}
    BY <1>0, <1>4, Zenon DEF SendEvent
  <2>2. \A q \in Posters : sending[q] # e
    BY <2>1, Zenon DEF LInv, UnusedInv, Sent
  <2>3. sending[p] = NoEvent /\ sending'[p] = e
        /\ \A q \in Posters : q # p => sending'[q] = sending[q]
    BY <1>0, <1>1, <2>1, Zenon
  <2>4. /\ \A q \in Posters : sending'[q] # NoEvent => pc'[q] \in {"notify", "wait"}
        /\ \A q \in Posters : sending'[q] = sending[q] \/ (sending[q] = NoEvent /\ sending'[q] = e)
        /\ \A q \in Posters : sending'[q] = e =>
             "sync" = "sync" /\ \A r \in Posters : sending'[r] = e => r = q
    BY <1>1, <2>1, <2>2, <2>3
  <2> QED
    BY <1>2, <2>1, <2>4, AcceptLInv, ZenonT(30)
<1>5. CASE Notify(p)
  <2>1. /\ ev' = ev /\ sending' = sending /\ UNCHANGED loopVars /\ m_Events' = m_Events
        /\ \A q \in Posters : q # p => pc'[q] = pc[q]
        /\ sending[p] # NoEvent => pc'[p] = "wait"
    BY <1>0, <1>5, Zenon DEF Notify, queueVars
  <2>2. Queue' = Queue /\ ListInv'
    BY <1>0, <1>2, <2>1, Zenon DEF Queue, ListInv
  <2> QED
    BY <1>1, <1>2, <2>1, <2>2, QuietLInv, Zenon
<1>6. CASE WaitResultAndDeleteThis(p)
  BY <1>6, WaitResultLInv, Zenon
<1>7. CASE StopEventLoop(p)
  <2>1. /\ ev' = ev /\ sending' = sending /\ UNCHANGED loopVars /\ m_Events' = m_Events
        /\ pc[p] = "idle" /\ \A q \in Posters : q # p => pc'[q] = pc[q]
    BY <1>0, <1>7, Zenon DEF StopEventLoop, queueVars
  <2>2. Queue' = Queue /\ ListInv'
    BY <1>0, <1>2, <2>1, Zenon DEF Queue, ListInv
  <2> QED
    BY <1>1, <1>2, <2>1, <2>2, QuietLInv, Zenon
<1> QED
  BY <1>3, <1>4, <1>5, <1>6, <1>7, Zenon DEF PosterStep

\* A step of the loop thread preserves the invariant.
LEMMA LoopStepLInv ==
  ASSUME IInv, LInv, LoopStep \/ LoopChoice
  PROVE  LInv'
<1>0. /\ ListInv /\ SendInv /\ NoEvent \notin Events
      /\ after \in {"handler", "top"} /\ resume \in Callbacks
  BY Zenon DEF LInv, IInv, TypeOK
<1>1. \A q \in Posters : sending[q] # NoEvent => pc[q] \in {"notify", "wait"}
  BY <1>0, Zenon DEF SendInv
<1>2. CASE \/ LoopTop \/ TimersDone \/ EpollPipe \/ OnInput \/ BatchDone \/ NotifyRemain
           \/ LoopEnd \/ NotifyClose \/ EpollOther \/ EpollTimeout \/ EpollError
  <2>1. /\ ev' = ev /\ sending' = sending /\ pc' = pc
        /\ listEvents' = listEvents /\ m_Events' = m_Events /\ resume' = resume
    BY <1>2, Zenon
       DEF LoopTop, TimersDone, EpollPipe, OnInput, BatchDone, NotifyRemain, LoopEnd,
           NotifyClose, EpollOther, EpollTimeout, EpollError, Goto, queueVars, posterVars
  <2>2. /\ loop \in {"top", "timer", "wait", "input", "handler", "remain", "end", "close"}
        /\ loop' \in {"top", "timer", "wait", "input", "handler", "end", "close", "pop", "sweep"}
    BY <1>0, <1>2, Zenon
       DEF LoopTop, TimersDone, EpollPipe, OnInput, BatchDone, NotifyRemain, LoopEnd,
           NotifyClose, EpollOther, EpollTimeout, EpollError, Goto
  <2>3. Queue' = Queue /\ ~Holds /\ ~Holds' /\ ListInv'
    BY <1>0, <2>1, <2>2, Zenon DEF Queue, Holds, ListInv
  <2> QED
    BY <1>1, <2>1, <2>2, <2>3, QuietLInv, Zenon
<1>3. CASE PopPendingEvents
  <2>1. Queue' = Queue
    BY <1>0, <1>3, PopQueue, Zenon
  <2>2. /\ ev' = ev /\ sending' = sending /\ pc' = pc /\ loop = "pop" /\ loop' = "process"
    BY <1>3, Zenon DEF PopPendingEvents, posterVars
  <2>3. ~Holds /\ ~Holds' /\ ListInv'
    BY <2>2, Zenon DEF Holds, ListInv
  <2> QED
    BY <1>1, <2>1, <2>2, <2>3, QuietLInv, Zenon
<1>4. CASE EventsDone
  <2>1. /\ ev' = ev /\ sending' = sending /\ pc' = pc /\ loop = "process"
        /\ listEvents = <<>> /\ listEvents' = <<>> /\ m_Events' = m_Events
        /\ loop' \in {"remain", "handler", "top"}
    BY <1>0, <1>4, Zenon DEF EventsDone, Goto, posterVars, queueVars
  <2>2. Queue' = Queue /\ ~Holds /\ ~Holds' /\ ListInv'
    BY <2>1, Zenon DEF Queue, Holds, ListInv
  <2> QED
    BY <1>1, <2>1, <2>2, QuietLInv, Zenon
<1>5. CASE LoopNotify
  <2>1. /\ ev' = ev /\ sending' = sending /\ pc' = pc /\ loop = "loopnotify"
        /\ listEvents' = listEvents /\ m_Events' = m_Events /\ loop' = resume
    BY <1>0, <1>5, Zenon DEF LoopNotify, Goto, posterVars, queueVars
  <2>2. Queue' = Queue /\ (Holds' <=> Holds) /\ loop' \notin {"signal", "destroy", "process"}
    BY <1>0, <2>1, Zenon DEF Queue, Holds, Callbacks
  <2>3. ListInv'
    BY <1>0, <2>1, <2>2, Zenon DEF ListInv
  <2> QED
    BY <1>1, <2>1, <2>2, <2>3, QuietLInv, Zenon
<1>6. ASSUME NEW e \in Events, LoopPostEvent(e)
      PROVE  LInv'
  <2>1. /\ ev[e].kind = "unused" /\ ev' = [ev EXCEPT ![e].kind = "plain"] /\ Push(e)
        /\ listEvents' = listEvents /\ iter' = iter /\ sending' = sending /\ pc' = pc
        /\ loop \in Callbacks
        /\ \/ loop' = loop /\ resume' = resume
           \/ loop' = "loopnotify" /\ resume' = loop
    BY <1>6, Zenon DEF LoopPostEvent, posterVars
  <2>2. (Holds' <=> Holds) /\ loop \notin {"signal", "destroy", "process", "sweep", "clear"}
        /\ loop' \notin {"signal", "destroy", "process", "sweep", "clear"}
    BY <2>1, Zenon DEF Holds, Callbacks
  <2>3. \A q \in Posters : sending[q] # e
    BY <2>1, Zenon DEF LInv, UnusedInv, Sent
  <2> QED
    BY <1>1, <2>1, <2>2, <2>3, AcceptLInv, ZenonT(30)
<1>7. CASE OnEventFire \/ EventReturns \/ Signal \/ DestroyEvent \/ DestroyPending \/ ClearPending
  BY <1>7, OnEventFireLInv, EventReturnsLInv, SignalLInv, DestroyEventLInv,
     DestroyPendingLInv, ClearPendingLInv
<1>8. ASSUME NEW e \in Events, LoopSendEvent(e)
      PROVE  LInv'
  BY <1>8, LoopSendLInv, Zenon
<1> QED
  BY <1>2, <1>3, <1>4, <1>5, <1>6, <1>7, <1>8, Zenon DEF LoopStep, LoopChoice

\* Every step preserves the invariant.
LEMMA NextLInv == IInv /\ LInv /\ [Next]_vars => LInv'
<1> SUFFICES ASSUME IInv, LInv, [Next]_vars PROVE LInv'
  BY Zenon
<1>1. CASE Next
  BY <1>1, PosterStepLInv, LoopStepLInv, Zenon DEF Next
<1>2. CASE UNCHANGED vars
  <2>1. /\ ev' = ev /\ UNCHANGED loopVars /\ pc' = pc /\ sending' = sending
        /\ m_Events' = m_Events
    BY <1>2, Zenon DEF vars, queueVars, posterVars
  <2>2. /\ listEvents' = listEvents /\ loop' = loop /\ iter' = iter /\ (Holds' <=> Holds)
    BY <2>1, Zenon DEF loopVars, Holds
  <2>3. Queue' = Queue /\ ListInv'
    BY <2>1, <2>2, Zenon DEF Queue, LInv, ListInv
  <2>4. \A q \in Posters : sending[q] # NoEvent => pc'[q] \in {"notify", "wait"}
    BY <2>1, Zenon DEF LInv, SendInv
  <2> QED
    BY <2>1, <2>2, <2>3, <2>4, QuietLInv, Zenon
<1> QED
  BY <1>1, <1>2, Zenon

\* The life cycle of event objects is respected in every state.
THEOREM LifeCycle == Spec => [](IInv /\ LInv)
<1>1. Spec => []IInv
  BY Invariance, Zenon
<1> QED
  BY <1>1, InitLInv, NextLInv, PTL DEF Spec

-----------------------------------------------------------------------------
\* Nobody holds a deleted event, and no event is deleted or fired twice,
\* although the loop thread and the sender of a synchronous event both
\* destroy it.
THEOREM NoneUsedAfterDelete == Spec => []NoUseAfterDelete
<1>1. ASSUME IInv, LInv, loop \notin {"sweep", "clear"}, NEW e \in Referenced
      PROVE  ev[e].deleted = 0
  <2>1. CASE \E p \in Posters : pc[p] = "wait" /\ e = sending[p]
    <3>1. PICK p \in Posters : pc[p] = "wait" /\ e = sending[p]
      BY <2>1, Zenon
    <3>2. e # NoEvent
      BY <1>1, <3>1, Zenon DEF IInv, SenderInv
    <3> QED
      BY <1>1, <3>1, <3>2, SenderFacts, Zenon DEF LInv
  <2>2. CASE \E i \in 1..Len(Queue) : e = Queue[i]
    <3>1. PICK i \in 1..Len(Queue) : e = Queue[i]
      BY <2>2, Zenon
    <3>2. CASE i > 1 \/ ~Holds
      <4>1. Queued(e)
        BY <1>1, <3>1, <3>2, Zenon DEF LInv, QueueInv, Unswept
      <4> QED
        BY <4>1, Zenon DEF Queued, Fresh, Back
    <3>3. CASE ~(i > 1) /\ Holds
      <4>1. i = 1
        BY <3>3
      <4> QED
        BY <1>1, <3>1, <3>3, <4>1, Zenon DEF LInv, HeadInv
    <3> QED
      BY <3>2, <3>3, Zenon
  <2>3. (\E p \in Posters : pc[p] = "wait" /\ e = sending[p])
          \/ \E i \in 1..Len(Queue) : e = Queue[i]
    <3>1. listEvents \in Seq(Events) /\ m_Events \in Seq(Events)
      BY <1>1, Zenon DEF IInv, TypeOK
    <3>2. CASE \E i \in 1..Len(m_Events) : e = m_Events[i]
      <4>1. PICK i \in 1..Len(m_Events) : e = m_Events[i]
        BY <3>2, Zenon
      <4>2. Len(listEvents) + i \in 1..Len(Queue) /\ Queue[Len(listEvents) + i] = m_Events[i]
        BY <3>1 DEF Queue
      <4> QED
        BY <4>1, <4>2, Zenon
    <3>3. CASE \E i \in 1..Len(listEvents) : e = listEvents[i]
      <4>1. PICK i \in 1..Len(listEvents) : e = listEvents[i]
        BY <3>3, Zenon
      <4>2. i \in 1..Len(Queue) /\ Queue[i] = listEvents[i]
        BY <3>1 DEF Queue
      <4> QED
        BY <4>1, <4>2, Zenon
    <3> QED
      BY <3>2, <3>3, Zenon DEF Referenced
  <2> QED
    BY <2>1, <2>2, <2>3, Zenon
<1>2. IInv /\ LInv => NoUseAfterDelete
  BY <1>1, Zenon DEF LInv, CountInv, NoUseAfterDelete
<1> QED
  BY <1>2, LifeCycle, PTL

\* Every SendEvent that returns returns what the callback of its event returned.
THEOREM ResultReturned == Spec => SendReturnsResult
<1>1. ASSUME IInv, LInv, Next, NEW p \in Posters, pc[p] = "wait", pc'[p] # "wait"
      PROVE  ev[sending[p]].m_Result = "fired"
  <2>1. WaitResultAndDeleteThis(p)
    <3>1. \/ \E q \in Posters : PosterStep(q)
          \/ pc' = pc
      BY <1>1, ZenonT(30) DEF Next, LoopStep, LoopChoice, LoopTop, TimersDone, EpollPipe, OnInput,
           BatchDone, NotifyRemain, LoopEnd, NotifyClose, EpollOther, EpollTimeout,
           EpollError, PopPendingEvents, EventsDone, LoopNotify, LoopPostEvent, OnEventFire,
           EventReturns, Signal, DestroyEvent, DestroyPending, ClearPending, LoopSendEvent,
           posterVars
    <3>2. PICK q \in Posters : PosterStep(q)
      BY <1>1, <3>1, Zenon
    <3>3. pc \in [Posters -> PosterPoints]
      BY <1>1, Zenon DEF IInv, TypeOK
    <3>4. q = p
      BY <1>1, <3>2, <3>3, Zenon DEF PosterStep, PostEvent, SendEvent, Notify, StopEventLoop,
           WaitResultAndDeleteThis
    <3> QED
      BY <1>1, <3>2, <3>4, ZenonT(30) DEF PosterStep, PostEvent, SendEvent, Notify, StopEventLoop
  <2>2. sending[p] # NoEvent /\ ev[sending[p]].signalled
    BY <1>1, <2>1, Zenon DEF IInv, SenderInv, WaitResultAndDeleteThis
  <2> QED
    BY <1>1, <2>2, Zenon DEF LInv, SendInv, Back
<1>2. IInv /\ LInv /\ [Next]_vars =>
        [\A p \in Posters :
           pc[p] = "wait" /\ pc'[p] # "wait" => ev[sending[p]].m_Result = "fired"]_vars
  BY <1>1, Zenon
<1> QED
  BY <1>2, LifeCycle, PTL DEF Spec, SendReturnsResult

-----------------------------------------------------------------------------
(* The reactor implements EventService. *)

\* A step EventService does not see.
LEMMA ServiceStutters ==
  ASSUME Unfired' = Unfired, \A e \in Events : InFront(e)' = InFront(e),
         \A e \in Events : ev'[e].fired = ev[e].fired,
         loop' \in Closing <=> loop \in Closing
  PROVE  UNCHANGED Service!serviceVars
<1>1. [e \in Events |-> InFront(e)]' = [e \in Events |-> InFront(e)]
  BY Zenon
<1>2. {e \in Events : ev[e].fired > 0}' = {e \in Events : ev[e].fired > 0}
  BY Zenon
<1> QED
  BY <1>1, <1>2, Zenon DEF Service!serviceVars

\* The queue is not touched and nothing is fired.
LEMMA SameQueueStutters ==
  ASSUME Queue' = Queue, \A e \in Events : ev'[e].fired = ev[e].fired,
         loop' \in Closing <=> loop \in Closing
  PROVE  UNCHANGED Service!serviceVars
<1>1. Unfired' = Unfired
  BY Zenon DEF Unfired
<1>2. \A e \in Events : InFront(e)' = InFront(e)
  BY <1>1, Zenon DEF InFront
<1> QED
  BY <1>1, <1>2, ServiceStutters, Zenon

\* The loop has ended and nothing is fired.
LEMMA ClosedStutters ==
  ASSUME loop \in Closing, loop' \in Closing, \A e \in Events : ev'[e].fired = ev[e].fired
  PROVE  UNCHANGED Service!serviceVars
<1>1. Unfired' = {} /\ Unfired = {}
  BY Zenon DEF Unfired
<1>2. \A e \in Events : InFront(e)' = {} /\ InFront(e) = {}
  BY <1>1, Zenon DEF InFront
<1> QED
  BY <1>1, <1>2, ServiceStutters, Zenon

\* The loop ends.
LEMMA LoopEnds ==
  ASSUME loop \notin Closing, loop' \in Closing, \A e \in Events : ev'[e].fired = ev[e].fired
  PROVE  Service!ServiceNext
<1>1. Unfired' = {}
  BY Zenon DEF Unfired
<1>2. \A e \in Events : InFront(e)' = {}
  BY <1>1, Zenon DEF InFront
<1>3. [e \in Events |-> InFront(e)]' = [e \in Events |-> {}]
  BY <1>2, Zenon
<1>4. {e \in Events : ev[e].fired > 0}' = {e \in Events : ev[e].fired > 0}
  BY Zenon
<1>5. (loop \notin Closing) = TRUE /\ (loop' \notin Closing) = FALSE
  BY Zenon
<1>6. Service!Shut
  BY <1>1, <1>3, <1>4, <1>5, Zenon DEF Service!Shut
<1> QED
  BY <1>6, Zenon DEF Service!ServiceNext

\* A posted event is accepted, behind all events that are pending.
LEMMA PostAccepted ==
  ASSUME IInv, LInv, NEW e \in Events, ev[e].kind = "unused",
         Queue' = Append(Queue, e), \A x \in Events : ev'[x].fired = ev[x].fired,
         loop \notin Closing, loop' \notin Closing
  PROVE  Service!ServiceNext
<1>0. /\ ev[e] = Unused /\ ev[e].fired = 0 /\ \A i \in 1..Len(Queue) : Queue[i] # e
  BY SMTT(30) DEF LInv, UnusedInv, Unused
<1>1. /\ Queue \in Seq(Events) /\ Len(Queue) \in Nat
      /\ \A i \in 1..Len(Queue) : Queue[i] \in Events
  BY QueueFacts, Zenon
<1>2. /\ Len(Queue') = Len(Queue) + 1
      /\ \A i \in 1..Len(Queue) : Queue'[i] = Queue[i] /\ i \in 1..Len(Queue')
      /\ \A i \in 1..Len(Queue') : i \notin 1..Len(Queue) =>
           i = Len(Queue) + 1 /\ Queue'[i] = e
      /\ Len(Queue) + 1 \in 1..Len(Queue') /\ Queue'[Len(Queue) + 1] = e
  BY <1>1, Appended, SMTT(30)
<1>3. e \notin Unfired /\ ~(ev[e].fired > 0)
  BY <1>0, SMTT(30) DEF Unfired
<1>4. Unfired' = Unfired \cup {e}
  <2>1. ASSUME NEW x \in Events
        PROVE  x \in Unfired' <=> x \in Unfired \cup {e}
    <3>1. (\E i \in 1..Len(Queue') : Queue'[i] = x) <=> (x = e \/ \E i \in 1..Len(Queue) : Queue[i] = x)
      BY <1>2, Zenon
    <3> QED
      BY <1>0, <3>1, Zenon DEF Unfired
  <2> QED
    BY <2>1, SMTT(30) DEF Unfired
<1>5. InFront(e)' = Unfired
  <2>1. ASSUME NEW x \in Unfired
        PROVE  x \in InFront(e)'
    <3>1. PICK i \in 1..Len(Queue) : Queue[i] = x
      BY Zenon DEF Unfired
    <3>2. i < Len(Queue) + 1
      BY <1>1, SMTT(30)
    <3> QED
      BY <1>2, <1>4, <3>1, <3>2, Zenon DEF InFront
  <2>2. ASSUME NEW x \in InFront(e)'
        PROVE  x \in Unfired
    <3>1. PICK i \in 1..Len(Queue'), j \in 1..Len(Queue') : i < j /\ Queue'[i] = x /\ Queue'[j] = e
      BY Zenon DEF InFront
    <3>2. i \in 1..Len(Queue)
      BY <1>1, <1>2, <3>1, SMTT(30)
    <3>3. x # e /\ x \in Unfired'
      BY <1>0, <1>2, <3>1, <3>2 DEF InFront
    <3> QED
      BY <1>4, <3>3, Zenon
  <2> QED
    BY <2>1, <2>2, ZenonT(30)
<1>6. \A f \in Events : f # e => InFront(f)' = InFront(f)
  <2> SUFFICES ASSUME NEW f \in Events, f # e PROVE InFront(f)' = InFront(f)
    BY Zenon
  <2>1. ASSUME NEW x
        PROVE  (\E i, j \in 1..Len(Queue') : i < j /\ Queue'[i] = x /\ Queue'[j] = f)
                 <=> (\E i, j \in 1..Len(Queue) : i < j /\ Queue[i] = x /\ Queue[j] = f)
    <3>1. ASSUME NEW i \in 1..Len(Queue'), NEW j \in 1..Len(Queue'), i < j, Queue'[j] = f
          PROVE  i \in 1..Len(Queue) /\ j \in 1..Len(Queue)
      BY <1>1, <1>2, <3>1, SMTT(30)
    <3> QED
      BY <1>2, <3>1, SMTT(30)
  <2>2. e \notin InFront(f)'
    BY <1>0, <1>1, <1>2, SMTT(30) DEF InFront
  <2> QED
    BY <1>3, <1>4, <2>1, <2>2, SMTT(30) DEF InFront
<1>7. [x \in Events |-> InFront(x)]' = [[x \in Events |-> InFront(x)] EXCEPT ![e] = Unfired]
  BY <1>5, <1>6, ZenonT(30)
<1>8. {x \in Events : ev[x].fired > 0}' = {x \in Events : ev[x].fired > 0}
  BY Zenon
<1>9. Service!Accept(e)
  BY <1>3, <1>4, <1>7, <1>8, Zenon DEF Service!Accept
<1> QED
  BY <1>9, Zenon DEF Service!ServiceNext

\* An event posted for the second time is not pending.
LEMMA RepostStutters ==
  ASSUME IInv, NEW e \in Events, ev[e].fired > 0, Queue' = Append(Queue, e), ev' = ev,
         loop' = loop
  PROVE  UNCHANGED Service!serviceVars
<1>1. /\ Queue \in Seq(Events) /\ Len(Queue) \in Nat
  BY QueueFacts, Zenon
<1>2. /\ Len(Queue') = Len(Queue) + 1
      /\ \A i \in 1..Len(Queue) : Queue'[i] = Queue[i] /\ i \in 1..Len(Queue')
      /\ \A i \in 1..Len(Queue') : i \notin 1..Len(Queue) => Queue'[i] = e
  BY <1>1, Appended, SMTT(30)
<1>3. ev[e].fired # 0
  BY DEF IInv, TypeOK
<1>4. Unfired' = Unfired
  <2>1. ASSUME NEW x \in Events, x # e
        PROVE  (\E i \in 1..Len(Queue') : Queue'[i] = x) <=> (\E i \in 1..Len(Queue) : Queue[i] = x)
    BY <1>2, <2>1, Zenon
  <2> QED
    BY <1>3, <2>1, Zenon DEF Unfired
<1>5. ASSUME NEW f \in Events
      PROVE  InFront(f)' = InFront(f)
  <2>1. ASSUME NEW x, x # e, f # e
        PROVE  (\E i, j \in 1..Len(Queue') : i < j /\ Queue'[i] = x /\ Queue'[j] = f)
                 <=> (\E i, j \in 1..Len(Queue) : i < j /\ Queue[i] = x /\ Queue[j] = f)
    BY <1>2, <2>1, SMTT(30)
  <2>2. e \notin Unfired
    BY <1>3, Zenon DEF Unfired
  <2> QED
    BY <1>4, <2>1, <2>2, SMTT(30) DEF InFront
<1> QED
  BY <1>4, <1>5, ServiceStutters, Zenon

\* The event that leaves the queue has been fired before.
LEMMA DestroyStutters ==
  ASSUME IInv, LInv, DestroyEvent
  PROVE  UNCHANGED Service!serviceVars
<1>0. /\ HeadInv /\ ev \in [Events -> EventObject]
      /\ listEvents \in Seq(Events) /\ m_Events \in Seq(Events)
      /\ loop = "destroy" /\ loop' = "process" /\ Holds
  BY Zenon DEF LInv, IInv, TypeOK, DestroyEvent, Holds
<1>1. /\ Queue \in Seq(Events) /\ Len(Queue) \in Nat /\ Len(Queue) >= 1
      /\ Queue[1] = Head(listEvents) /\ listEvents # <<>> /\ Queue[1] \in Events
  BY <1>0, QueueFacts
<1>2. PICK h \in Events : h = Queue[1]
  BY <1>1, Zenon
<1>3. Queue' = Tail(Queue)
  BY <1>0, <1>1, TailOfBoth, ZenonT(30) DEF DestroyEvent, Queue, queueVars
<1>4. /\ \A i \in 1..Len(Queue') :
           i + 1 \in 1..Len(Queue) /\ Queue'[i] = Queue[i + 1]
      /\ \A i \in 1..Len(Queue) : i # 1 =>
           i - 1 \in 1..Len(Queue') /\ Queue'[i - 1] = Queue[i]
  <2>1. /\ Len(Queue') = Len(Queue) - 1
        /\ \A i \in 1..(Len(Queue) - 1) : Queue'[i] = Queue[i + 1]
    BY <1>1, <1>3, TailShifts, Zenon
  <2>2. ASSUME NEW i \in 1..Len(Queue), i # 1
        PROVE  i - 1 \in 1..Len(Queue') /\ Queue'[i - 1] = Queue[i]
    <3>1. i - 1 \in 1..(Len(Queue) - 1) /\ (i - 1) + 1 = i
      BY <1>1, <2>2
    <3> QED
      BY <2>1, <3>1, Zenon
  <2> QED
    BY <1>1, <2>1, <2>2, SMTT(30)
<1>5. ev[h].fired = 1 /\ ev[h] \in EventObject
  BY <1>0, <1>2, Zenon DEF HeadInv
<1>6. \A x \in Events : ev'[x].fired = ev[x].fired
  <2>1. ev' = [ev EXCEPT ![h] = OnDestorySelf(@)]
    BY <1>1, <1>2, Zenon DEF DestroyEvent
  <2>2. OnDestorySelf(ev[h]).fired = ev[h].fired
    BY <1>5, Zenon DEF OnDestorySelf, EventObject
  <2> QED
    BY <1>0, <2>1, <2>2, Zenon
<1>7. loop \notin Closing /\ loop' \notin Closing
  BY <1>0, Zenon DEF Closing
<1>8. Unfired' = Unfired
  <2>1. ASSUME NEW x \in Events, x # h
        PROVE  (\E i \in 1..Len(Queue') : Queue'[i] = x) <=> (\E i \in 1..Len(Queue) : Queue[i] = x)
    <3>1. ASSUME NEW i \in 1..Len(Queue'), Queue'[i] = x
          PROVE  \E j \in 1..Len(Queue) : Queue[j] = x
      BY <1>4, <3>1, Zenon
    <3>2. ASSUME NEW i \in 1..Len(Queue), Queue[i] = x
          PROVE  \E j \in 1..Len(Queue') : Queue'[j] = x
      <4>1. i # 1
        BY <1>2, <2>1, <3>2, Zenon
      <4> QED
        BY <1>4, <3>2, <4>1, Zenon
    <3> QED
      BY <3>1, <3>2, Zenon
  <2>2. h \notin Unfired /\ h \notin Unfired'
    BY <1>5, <1>6, SMTT(30) DEF Unfired
  <2> QED
    BY <1>6, <1>7, <2>1, <2>2 DEF Unfired
<1>9. ASSUME NEW f \in Events
      PROVE  InFront(f)' = InFront(f)
  <2>1. h \notin Unfired
    BY <1>5 DEF Unfired
  <2>2. ASSUME NEW x, x # h, f # h
        PROVE  (\E i, j \in 1..Len(Queue') : i < j /\ Queue'[i] = x /\ Queue'[j] = f)
                 <=> (\E i, j \in 1..Len(Queue) : i < j /\ Queue[i] = x /\ Queue[j] = f)
    <3>1. ASSUME NEW i \in 1..Len(Queue'), NEW j \in 1..Len(Queue'), i < j,
                 Queue'[i] = x, Queue'[j] = f
          PROVE  \E k, l \in 1..Len(Queue) : k < l /\ Queue[k] = x /\ Queue[l] = f
      <4>1. i + 1 < j + 1
        BY <3>1
      <4> QED
        BY <1>4, <3>1, <4>1, Zenon
    <3>2. ASSUME NEW i \in 1..Len(Queue), NEW j \in 1..Len(Queue), i < j,
                 Queue[i] = x, Queue[j] = f
          PROVE  \E k, l \in 1..Len(Queue') : k < l /\ Queue'[k] = x /\ Queue'[l] = f
      <4>1. i # 1 /\ j # 1 /\ i - 1 < j - 1
        BY <1>2, <2>2, <3>2
      <4> QED
        BY <1>4, <3>2, <4>1, ZenonT(30)
    <3> QED
      BY <3>1, <3>2, Zenon
  <2> QED
    BY <1>8, <2>1, <2>2, ZenonT(30) DEF InFront
<1> QED
  BY <1>6, <1>7, <1>8, <1>9, ServiceStutters, Zenon

\* The event fired is the one accepted first of all pending ones.
LEMMA FirstIsFired ==
  ASSUME IInv, LInv, OnEventFire
  PROVE  Service!ServiceNext \/ UNCHANGED Service!serviceVars
<1>0. /\ QueueInv /\ Distinct /\ Queue \in Seq(Events) /\ Len(Queue) >= 1 /\ Len(Queue) \in Nat
      /\ Queue[1] = Head(listEvents) /\ Queue[1] \in Events
      /\ ev \in [Events -> EventObject] /\ loop = "process" /\ listEvents # <<>>
  BY QueueFacts DEF LInv, IInv, TypeOK, OnEventFire
<1>1. PICK h \in Events : h = Queue[1]
  BY <1>0, Zenon
<1>2. Queue' = Queue
  BY Zenon DEF OnEventFire, Queue, Goto, queueVars
<1>3. loop \notin Closing /\ loop' \notin Closing
  BY <1>0, Zenon DEF OnEventFire, Goto, Closing
<1>4. CASE ev[h].m_bHasDestoryed
  <2>1. ev' = ev
    BY <1>0, <1>1, <1>4, Zenon DEF OnEventFire
  <2> QED
    BY <1>2, <1>3, <2>1, SameQueueStutters, Zenon
<1>5. CASE ~ev[h].m_bHasDestoryed
  <2>1. Fresh(ev[h])
    <3>1. Queued(h)
      BY <1>0, <1>1 DEF QueueInv, Unswept, Holds
    <3> QED
      BY <1>0, <1>5, <3>1, Zenon DEF Queued, Parting
  <2>2. ev' = [ev EXCEPT ![h].fired = @ + 1]
    BY <1>0, <1>1, <1>5, Zenon DEF OnEventFire
  <2>3. /\ \A x \in Events : x # h => ev'[x] = ev[x]
        /\ ev'[h].fired = 1 /\ ev[h].fired = 0
    BY <1>0, <2>1, <2>2 DEF Fresh, EventObject
  <2>4. h \in Unfired /\ h \notin Unfired'
    BY <1>0, <1>1, <1>3, <2>3, SMTT(30) DEF Unfired
  <2>5. Unfired' = Unfired \ {h}
    BY <1>2, <1>3, <2>3, <2>4, Zenon DEF Unfired
  <2>6. InFront(h) = {}
    <3>1. \A i, j \in 1..Len(Queue) : i < j => Queue[j] # h
      <4> SUFFICES ASSUME NEW i \in 1..Len(Queue), NEW j \in 1..Len(Queue), i < j, Queue[j] = h
                   PROVE  FALSE
        BY Zenon
      <4>1. 1 \in 1..Len(Queue) /\ 1 < j /\ Queue[1] = Queue[j]
        BY <1>0, <1>1
      <4> QED
        BY <1>0, <4>1, Zenon DEF Distinct, Parting
    <3> QED
      BY <3>1, Zenon DEF InFront
  <2>7. \A f \in Events : InFront(f)' = InFront(f) \ {h}
    <3> SUFFICES ASSUME NEW f \in Events PROVE InFront(f)' = InFront(f) \ {h}
      BY Zenon
    <3>1. CASE f = h
      <4>1. InFront(f)' = {}
        BY <2>4, <3>1, Zenon DEF InFront
      <4> QED
        BY <2>6, <3>1, <4>1, Zenon
    <3>2. CASE f # h
      BY <1>2, <2>5, <3>2, Zenon DEF InFront
    <3> QED
      BY <3>1, <3>2, Zenon
  <2>8. [f \in Events |-> InFront(f)]' = [f \in Events |-> [x \in Events |-> InFront(x)][f] \ {h}]
    BY <2>7, Zenon
  <2>9. {x \in Events : ev[x].fired > 0}' = {x \in Events : ev[x].fired > 0} \cup {h}
    BY <2>3
  <2>10. Service!Fire(h)
    BY <1>3, <2>4, <2>5, <2>6, <2>8, <2>9, Zenon DEF Service!Fire
  <2> QED
    BY <2>10, Zenon DEF Service!ServiceNext
<1> QED
  BY <1>4, <1>5, Zenon

\* An event the loop thread sends to itself overtakes the pending ones.
LEMMA SentInPlace ==
  ASSUME IInv, LInv, NEW e \in Events, LoopSendEvent(e)
  PROVE  Service!ServiceNext
<1>0. /\ ev[e] = Unused /\ ev[e].fired = 0 /\ \A i \in 1..Len(Queue) : Queue[i] # e
      /\ ev \in [Events -> EventObject] /\ loop \in Callbacks
  BY DEF LInv, UnusedInv, Unused, IInv, TypeOK, LoopSendEvent
<1>1. Queue' = Queue /\ loop' = loop /\ loop \notin Closing /\ loop' \notin Closing
  BY <1>0, Zenon DEF LoopSendEvent, Queue, queueVars, loopVars, Callbacks, Closing
<1>2. /\ \A x \in Events : x # e => ev'[x] = ev[x]
      /\ ev'[e].fired = 1
  BY <1>0 DEF LoopSendEvent, EventObject
<1>3. e \notin Unfired /\ e \notin Unfired'
  BY <1>0, <1>1, Zenon DEF Unfired
<1>4. Unfired' = Unfired
  BY <1>1, <1>2, <1>3, Zenon DEF Unfired
<1>5. \A f \in Events : InFront(f)' = InFront(f)
  BY <1>1, <1>4, Zenon DEF InFront
<1>6. [f \in Events |-> InFront(f)]' = [f \in Events |-> InFront(f)]
  BY <1>5, Zenon
<1>7. {x \in Events : ev[x].fired > 0}' = {x \in Events : ev[x].fired > 0} \cup {e}
  BY <1>2
<1>8. ~(ev[e].fired > 0)
  BY <1>0
<1>9. Service!FireInPlace(e)
  BY <1>1, <1>3, <1>4, <1>6, <1>7, <1>8, Zenon DEF Service!FireInPlace
<1> QED
  BY <1>9, Zenon DEF Service!ServiceNext

\* A post is accepted, unless the loop has ended.
LEMMA PostServes ==
  ASSUME IInv, LInv, NEW e \in Events, ev[e].kind = "unused", NEW k \in {"plain", "sync"},
         ev' = [ev EXCEPT ![e].kind = k], Push(e), listEvents' = listEvents,
         loop' \in Closing <=> loop \in Closing
  PROVE  Service!ServiceNext \/ UNCHANGED Service!serviceVars
<1>1. \A x \in Events : ev'[x].fired = ev[x].fired
  BY Zenon DEF IInv, TypeOK, EventObject
<1>2. Queue' = Append(Queue, e)
  BY PushQueue, Zenon
<1>3. CASE loop \in Closing
  BY <1>1, <1>3, ClosedStutters, Zenon
<1>4. CASE loop \notin Closing
  BY <1>1, <1>2, <1>4, PostAccepted, Zenon
<1> QED
  BY <1>3, <1>4, Zenon

\* Every step of another thread is a step of EventService or unseen by it.
LEMMA PosterStepServes ==
  ASSUME IInv, LInv, NEW p \in Posters, PosterStep(p)
  PROVE  Service!ServiceNext \/ UNCHANGED Service!serviceVars
<1>1. ASSUME NEW e \in Events, PostEvent(p, e)
      PROVE  Service!ServiceNext \/ UNCHANGED Service!serviceVars
  <2>1. /\ ev[e].kind = "unused" /\ ev' = [ev EXCEPT ![e].kind = "plain"] /\ Push(e)
        /\ listEvents' = listEvents /\ loop' = loop
    BY <1>1, Zenon DEF PostEvent, loopVars
  <2> QED
    BY <2>1, PostServes, ZenonT(30)
<1>2. ASSUME NEW e \in Events, SendEvent(p, e)
      PROVE  Service!ServiceNext \/ UNCHANGED Service!serviceVars
  <2>1. /\ ev[e].kind = "unused" /\ ev' = [ev EXCEPT ![e].kind = "sync"] /\ Push(e)
        /\ listEvents' = listEvents /\ loop' = loop
    BY <1>2, Zenon DEF SendEvent, loopVars
  <2> QED
    BY <2>1, PostServes, ZenonT(30)
<1>3. CASE Notify(p) \/ StopEventLoop(p)
  <2>1. ev' = ev /\ loop' = loop /\ listEvents' = listEvents /\ m_Events' = m_Events
    BY <1>3, Zenon DEF Notify, StopEventLoop, loopVars, queueVars
  <2> QED
    BY <2>1, SameQueueStutters, Zenon DEF Queue
<1>4. CASE WaitResultAndDeleteThis(p)
  <2>1. /\ ev' = ev /\ loop' = loop /\ listEvents' = listEvents /\ Push(sending[p])
        /\ pc[p] = "wait" /\ ev[sending[p]].signalled
    BY <1>4, Zenon DEF WaitResultAndDeleteThis, loopVars
  <2>2. PICK e \in Events : e = sending[p]
    BY <2>1, Zenon DEF IInv, TypeOK, SenderInv
  <2>3. ev[e].fired > 0
    <3>1. e # NoEvent /\ ev[e].signalled
      BY <2>1, <2>2, NoEventAssumption, Zenon
    <3>2. Back(ev[e])
      BY <2>2, <3>1, Zenon DEF LInv, SendInv
    <3> QED
      BY <3>2 DEF Back
  <2>4. Queue' = Append(Queue, e)
    BY <2>1, <2>2, PushQueue, Zenon
  <2> QED
    BY <2>1, <2>3, <2>4, RepostStutters, Zenon
<1> QED
  BY <1>1, <1>2, <1>3, <1>4, Zenon DEF PosterStep

\* So is every step of the loop thread.
LEMMA LoopStepServes ==
  ASSUME IInv, LInv, LoopStep \/ LoopChoice
  PROVE  Service!ServiceNext \/ UNCHANGED Service!serviceVars
<1>0. /\ ListInv /\ ev \in [Events -> EventObject] /\ after \in {"handler", "top"}
      /\ resume \in Callbacks /\ listEvents \in Seq(Events)
  BY Zenon DEF LInv, IInv, TypeOK
<1>1. CASE \/ LoopTop \/ TimersDone \/ EpollPipe \/ OnInput \/ BatchDone \/ NotifyRemain
           \/ EpollOther \/ EpollTimeout \/ EpollError \/ EventsDone \/ LoopNotify
  <2>1. /\ ev' = ev /\ listEvents' = listEvents /\ m_Events' = m_Events
    BY <1>1, Zenon
       DEF LoopTop, TimersDone, EpollPipe, OnInput, BatchDone, NotifyRemain, EpollOther,
           EpollTimeout, EpollError, EventsDone, LoopNotify, Goto, queueVars
  <2>2. loop \notin Closing
    BY <1>1, Zenon
       DEF LoopTop, TimersDone, EpollPipe, OnInput, BatchDone, NotifyRemain, EpollOther,
           EpollTimeout, EpollError, EventsDone, LoopNotify, Closing
  <2>3. CASE loop' \in Closing
    BY <2>1, <2>2, <2>3, LoopEnds, Zenon
  <2>4. CASE loop' \notin Closing
    BY <2>1, <2>2, <2>4, SameQueueStutters, Zenon DEF Queue
  <2> QED
    BY <2>3, <2>4, Zenon
<1>2. CASE PopPendingEvents
  <2>1. Queue' = Queue
    BY <1>0, <1>2, PopQueue, Zenon
  <2>2. ev' = ev /\ loop \notin Closing /\ loop' \notin Closing
    BY <1>2, Zenon DEF PopPendingEvents, Closing
  <2> QED
    BY <2>1, <2>2, SameQueueStutters, Zenon
<1>3. CASE EventReturns \/ Signal
  <2>1. PICK h \in Events : h = Head(listEvents)
    <3>1. Holds
      BY <1>3, Zenon DEF EventReturns, Signal, Holds
    <3> QED
      BY <1>0, <3>1, QueueFacts
  <2>2. /\ listEvents' = listEvents /\ m_Events' = m_Events
        /\ loop \notin Closing /\ loop' \notin Closing
    BY <1>3, Zenon DEF EventReturns, Signal, Goto, queueVars, Closing
  <2>3. \/ ev' = ev
        \/ ev' = [ev EXCEPT ![h].m_Result = "fired"]
        \/ ev' = [ev EXCEPT ![h].signalled = TRUE]
    BY <1>3, <2>1, Zenon DEF EventReturns, Signal
  <2>4. \A x \in Events : ev'[x].fired = ev[x].fired
    <3>1. CASE ev' = [ev EXCEPT ![h].m_Result = "fired"]
      BY <1>0, <3>1, Zenon DEF EventObject
    <3>2. CASE ev' = [ev EXCEPT ![h].signalled = TRUE]
      BY <1>0, <3>2, Zenon DEF EventObject
    <3> QED
      BY <2>3, <3>1, <3>2, Zenon
  <2> QED
    BY <2>2, <2>4, SameQueueStutters, Zenon DEF Queue
<1>4. CASE LoopEnd \/ NotifyClose \/ ClearPending
  <2>1. ev' = ev /\ loop \in Closing /\ loop' \in Closing
    BY <1>4, Zenon DEF LoopEnd, NotifyClose, ClearPending, Goto, Closing
  <2> QED
    BY <2>1, ClosedStutters, Zenon
<1>5. CASE DestroyPending
  <2>1. loop \in Closing /\ loop' \in Closing
    BY <1>5, Zenon DEF DestroyPending, Goto, Closing
  <2>2. \A r \in EventObject : OnDestorySelf(r).fired = r.fired
    BY Zenon DEF OnDestorySelf, EventObject
  <2>3. \/ ev' = ev
        \/ ev' = [ev EXCEPT ![m_Events[iter]] = OnDestorySelf(@)]
    BY <1>5, Zenon DEF DestroyPending
  <2>4. \A x \in Events : ev'[x].fired = ev[x].fired
    BY <1>0, <2>2, <2>3, Zenon
  <2> QED
    BY <2>1, <2>4, ClosedStutters, Zenon
<1>6. ASSUME NEW e \in Events, LoopPostEvent(e)
      PROVE  Service!ServiceNext \/ UNCHANGED Service!serviceVars
  <2>1. /\ ev[e].kind = "unused" /\ ev' = [ev EXCEPT ![e].kind = "plain"] /\ Push(e)
        /\ listEvents' = listEvents /\ loop \notin Closing /\ loop' \notin Closing
    BY <1>6, Zenon DEF LoopPostEvent, Callbacks, Closing
  <2> QED
    BY <2>1, PostServes, ZenonT(30)
<1>7. CASE OnEventFire \/ DestroyEvent
  BY <1>7, FirstIsFired, DestroyStutters, Zenon
<1>8. ASSUME NEW e \in Events, LoopSendEvent(e)
      PROVE  Service!ServiceNext \/ UNCHANGED Service!serviceVars
  BY <1>8, SentInPlace, Zenon
<1> QED
  BY <1>1, <1>2, <1>3, <1>4, <1>5, <1>6, <1>7, <1>8 DEF LoopStep, LoopChoice

\* The queue starts empty.
LEMMA InitServes == Init => Service!ServiceInit
<1> SUFFICES ASSUME Init PROVE Service!ServiceInit
  BY Zenon
<1>1. Queue = <<>> /\ Len(Queue) = 0 /\ loop \notin Closing
      /\ \A e \in Events : ev[e].fired = 0
  BY SMTT(30) DEF Init, Queue, Closing, Unused
<1>2. Unfired = {} /\ {e \in Events : ev[e].fired > 0} = {}
  BY <1>1 DEF Unfired
<1>3. [e \in Events |-> InFront(e)] = [e \in Events |-> {}]
  BY <1>2, Zenon DEF InFront
<1> QED
  BY <1>1, <1>2, <1>3, Zenon DEF Service!ServiceInit

\* The reactor implements EventService: whatever the threads do, events are
\* fired in the order in which PostEvent accepted them, each once, and none
\* after the loop has ended; only what the loop thread sends to itself
\* overtakes.
THEOREM ImplementsService == Spec => ServiceSpec
<1>1. IInv /\ LInv /\ [Next]_vars => [Service!ServiceNext]_(Service!serviceVars)
  <2> SUFFICES ASSUME IInv, LInv, [Next]_vars
               PROVE  Service!ServiceNext \/ UNCHANGED Service!serviceVars
    BY Zenon
  <2>1. CASE Next
    BY <2>1, PosterStepServes, LoopStepServes, Zenon DEF Next
  <2>2. CASE UNCHANGED vars
    <3>1. ev' = ev /\ loop' = loop /\ listEvents' = listEvents /\ m_Events' = m_Events
      BY <2>2, Zenon DEF vars, queueVars, loopVars
    <3> QED
      BY <3>1, SameQueueStutters, Zenon DEF Queue
  <2> QED
    BY <2>1, <2>2, Zenon
<1> QED
  BY <1>1, InitServes, LifeCycle, PTL DEF Spec, ServiceSpec, Service!ServiceSpec
=============================================================================
