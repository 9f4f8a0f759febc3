--------------------------- MODULE ReactorProofs ---------------------------
(***************************************************************************)
(* Proofs about Reactor, for any number of posters and events, any         *)
(* MaxGetOnce and any capacity of the notify pipe.                         *)
(***************************************************************************)
EXTENDS Reactor, TLAPS

\* The loop thread is inside the processing of Head(listEvents).
Holding ==
  \/ loop \in {"callback", "signal", "destroy"}
  \/ loop = "loopnotify" /\ resume = "callback"
  => listEvents # <<>>

\* The recorded size is the length of the list until Close clears the list.
SizeInv == loop # "closed" => m_dwSize = Len(m_Events)

SenderInv == \A p \in Posters : pc[p] = "wait" => sending[p] \in Events

HandleInv == writeHandle <=> loop \notin {"sweep", "clear", "closed"}

\* The record whose edge was consumed and which is not yet read.
Claimed == IF loop = "input" THEN 1 ELSE 0

\* An edge stands for a record still to be read, and a consumed edge for room
\* in the pipe.
PipeInv ==
  /\ Len(pipe) >= Claimed
  /\ Len(pipe) <= PipeCapacity
  /\ edge => Len(pipe) > Claimed
  /\ writeHandle /\ ~edge => Len(pipe) < PipeCapacity + Claimed

\* The loop thread pops, or writes to the pipe, before it can sleep again.
LoopWillLook ==
  \/ loop \in {"input", "pop", "handler", "remain", "loopnotify"}
  \/ /\ loop \in {"process", "callback", "signal", "destroy"}
     /\ after = "handler" \/ dwRemainSize > 0

QueueWake == m_dwSize > 0 /\ loop \notin Closing => edge \/ Notifying \/ LoopWillLook

StopWake ==
  /\ m_bStoppedFlag
  /\ loop \in {"timer", "wait"} \/ (loop = "loopnotify" /\ resume = "timer")
  => edge \/ \E p \in Posters : pc[p] = "stopnotify"

IInv ==
  /\ TypeOK /\ Holding /\ SizeInv /\ SenderInv
  /\ HandleInv /\ PipeInv /\ QueueWake /\ StopWake

USE MaxGetOnceAssumption, PipeCapacityAssumption, NoEventAssumption

-----------------------------------------------------------------------------
\* A list popped from the front holds what the list held.
LEMMA TailKept ==
  ASSUME NEW S, NEW s \in Seq(S), s # <<>>
  PROVE  Tail(s) \in Seq(S)
OBVIOUS

\* A part of a list holds what the list held.
LEMMA PartKept ==
  ASSUME NEW S, NEW s, NEW m \in Int, NEW n \in Int, \A i \in m..n : s[i] \in S
  PROVE  SubSeq(s, m, n) \in Seq(S)
OBVIOUS

\* An event object nobody has used yet has its type.
LEMMA UnusedType == Unused \in EventObject
BY Zenon DEF Unused, EventObject, Results

\* Destroying an event object keeps its type.
LEMMA OnDestorySelfType ==
  ASSUME NEW r \in EventObject
  PROVE  OnDestorySelf(r) \in EventObject
<1>1. [r EXCEPT !.m_bHasDestoryed = TRUE] \in EventObject
  BY Zenon DEF EventObject
<1>2. [r EXCEPT !.deleted = @ + 1] \in EventObject
  BY DEF EventObject
<1>3. r.m_bHasDestoryed \in BOOLEAN
  BY Zenon DEF EventObject
<1> QED
  BY <1>1, <1>2, <1>3, Zenon DEF OnDestorySelf

\* Every update of an event object that an action makes keeps the type.
LEMMA EventUpdates ==
  ASSUME NEW e \in Events, ev \in [Events -> EventObject]
  PROVE  /\ [ev EXCEPT ![e].kind = "plain"] \in [Events -> EventObject]
         /\ [ev EXCEPT ![e].kind = "sync"] \in [Events -> EventObject]
         /\ [ev EXCEPT ![e].fired = @ + 1] \in [Events -> EventObject]
         /\ [ev EXCEPT ![e].m_Result = "fired"] \in [Events -> EventObject]
         /\ [ev EXCEPT ![e].signalled = TRUE] \in [Events -> EventObject]
         /\ [ev EXCEPT ![e] = OnDestorySelf(@)] \in [Events -> EventObject]
         /\ [ev EXCEPT ![e].kind = "plain", ![e].fired = @ + 1,
                       ![e].deleted = @ + 1] \in [Events -> EventObject]
<1>1. [ev[e] EXCEPT !.kind = "plain"] \in EventObject
  BY DEF EventObject
<1>2. [ev[e] EXCEPT !.kind = "sync"] \in EventObject
  BY DEF EventObject
<1>3. [ev[e] EXCEPT !.fired = @ + 1] \in EventObject
  BY DEF EventObject
<1>4. [ev[e] EXCEPT !.m_Result = "fired"] \in EventObject
  BY DEF EventObject, Results
<1>5. [ev[e] EXCEPT !.signalled = TRUE] \in EventObject
  BY ZenonT(30) DEF EventObject
<1>6. OnDestorySelf(ev[e]) \in EventObject
  BY OnDestorySelfType, Zenon
<1>7. [ev EXCEPT ![e].kind = "plain", ![e].fired = @ + 1, ![e].deleted = @ + 1]
        \in [Events -> EventObject]
  <2> DEFINE ev1 == [ev EXCEPT ![e].kind = "plain"]
             ev2 == [ev1 EXCEPT ![e].fired = @ + 1]
             ev3 == [ev2 EXCEPT ![e].deleted = @ + 1]
  <2>1. ev1 \in [Events -> EventObject]
    BY <1>1, Zenon
  <2> HIDE DEF ev1
  <2>2. [ev1[e] EXCEPT !.fired = @ + 1] \in EventObject
    BY <2>1 DEF EventObject
  <2>3. ev2 \in [Events -> EventObject]
    BY <2>1, <2>2, Zenon
  <2> HIDE DEF ev2
  <2>4. [ev2[e] EXCEPT !.deleted = @ + 1] \in EventObject
    BY <2>3 DEF EventObject
  <2>5. ev3 \in [Events -> EventObject]
    BY <2>3, <2>4, Zenon
  <2> QED
    BY <2>5 DEF ev1, ev2
<1> QED
  BY <1>1, <1>2, <1>3, <1>4, <1>5, <1>6, <1>7, Zenon

\* A record written to the pipe, or refused by it, keeps the types of the pipe.
LEMMA WriteType ==
  ASSUME TypeOK, NEW signal \in Signals, Write(signal)
  PROVE  pipe' \in Seq(Signals) /\ edge' \in BOOLEAN /\ writeHandle' \in BOOLEAN
<1>1. CASE ~SendRefused
  <2>1. pipe' = Append(pipe, signal) /\ edge' = TRUE /\ writeHandle' = writeHandle
    BY <1>1, Zenon DEF Write
  <2>2. pipe' \in Seq(Signals)
    BY <2>1 DEF TypeOK
  <2> QED
    BY <2>1, <2>2, Zenon DEF TypeOK
<1>2. CASE SendRefused
  BY <1>2, Zenon DEF TypeOK, Write, pipeVars
<1> QED
  BY <1>1, <1>2, Zenon

\* A reactor just opened satisfies the invariant.
LEMMA InitIInv == Init => IInv
<1> SUFFICES ASSUME Init PROVE IInv
  BY Zenon
<1> USE DEF Init
<1>1. TypeOK
  <2>1. ev \in [Events -> EventObject]
    BY UnusedType, Zenon
  <2>2. /\ m_Events \in Seq(Events) /\ pipe \in Seq(Signals)
        /\ listEvents \in Seq(Events)
    OBVIOUS
  <2>3. /\ loop \in LoopPoints /\ resume \in Callbacks
        /\ pc \in [Posters -> PosterPoints]
        /\ sending \in [Posters -> Events \cup {NoEvent}]
    BY Zenon DEF LoopPoints, Callbacks, PosterPoints
  <2>4. /\ m_dwSize \in Nat /\ dwRemainSize \in Nat /\ iter \in Nat \ {0}
        /\ after \in {"handler", "top"}
    OBVIOUS
  <2>5. edge \in BOOLEAN /\ writeHandle \in BOOLEAN /\ m_bStoppedFlag \in BOOLEAN
    BY Zenon
  <2> QED
    BY <2>1, <2>2, <2>3, <2>4, <2>5, Zenon DEF TypeOK
<1>2. Holding /\ SizeInv /\ SenderInv /\ HandleInv
  BY Zenon DEF Holding, SizeInv, SenderInv, HandleInv
<1>3. PipeInv
  BY DEF PipeInv, Claimed
<1>4. QueueWake /\ StopWake
  BY DEF QueueWake, StopWake
<1> QED
  BY <1>1, <1>2, <1>3, <1>4, Zenon DEF IInv

\* PostEvent, SendEvent, Notify, WaitResultAndDeleteThis and StopEventLoop.
LEMMA PosterStepIInv ==
  ASSUME IInv, NEW p \in Posters, PosterStep(p)
  PROVE  IInv'
<1> USE DEF IInv
<1>1. ASSUME NEW e \in Events, PostEvent(p, e) PROVE IInv'
  <2> USE <1>1 DEF PostEvent, Push, pipeVars, loopVars
  <2>1. TypeOK'
    <3>1. ev' \in [Events -> EventObject]
      BY EventUpdates, Zenon DEF TypeOK
    <3>2. m_Events' \in Seq(Events) /\ m_dwSize' \in Nat
      BY DEF TypeOK
    <3>3. pc' \in [Posters -> PosterPoints]
      BY Zenon DEF TypeOK, PosterPoints
    <3> QED
      BY <3>1, <3>2, <3>3, Zenon DEF TypeOK
  <2>2. Holding' /\ SizeInv' /\ SenderInv' /\ HandleInv'
    BY DEF TypeOK, Holding, SizeInv, SenderInv, HandleInv
  <2>3. PipeInv'
    BY Zenon DEF PipeInv, Claimed
  <2>4. QueueWake' /\ StopWake'
    BY DEF TypeOK, QueueWake, StopWake, LoopWillLook, Notifying, Closing
  <2> QED
    BY <2>1, <2>2, <2>3, <2>4, Zenon
<1>2. ASSUME NEW e \in Events, SendEvent(p, e) PROVE IInv'
  <2> USE <1>2 DEF SendEvent, Push, pipeVars, loopVars
  <2>1. TypeOK'
    <3>1. ev' \in [Events -> EventObject]
      BY EventUpdates, Zenon DEF TypeOK
    <3>2. m_Events' \in Seq(Events) /\ m_dwSize' \in Nat
      BY DEF TypeOK
    <3>3. pc' \in [Posters -> PosterPoints]
      BY Zenon DEF TypeOK, PosterPoints
    <3> QED
      BY <3>1, <3>2, <3>3, Zenon DEF TypeOK
  <2>2. Holding' /\ SizeInv' /\ SenderInv' /\ HandleInv'
    BY DEF TypeOK, Holding, SizeInv, SenderInv, HandleInv
  <2>3. PipeInv'
    BY Zenon DEF PipeInv, Claimed
  <2>4. QueueWake' /\ StopWake'
    BY DEF TypeOK, QueueWake, StopWake, LoopWillLook, Notifying, Closing
  <2> QED
    BY <2>1, <2>2, <2>3, <2>4, Zenon
<1>3. CASE Notify(p)
  <2> USE <1>3 DEF Notify, Write, SendRefused, pipeVars, queueVars, loopVars
  <2>1. TypeOK'
    <3>1. pipe' \in Seq(Signals) /\ edge' \in BOOLEAN /\ writeHandle' \in BOOLEAN
      BY WriteType, Zenon DEF TypeOK, Signals
    <3>2. pc' \in [Posters -> PosterPoints]
      BY Zenon DEF TypeOK, PosterPoints
    <3> QED
      BY <3>1, <3>2, Zenon DEF TypeOK
  <2>2. Holding' /\ SizeInv' /\ SenderInv' /\ HandleInv'
    BY DEF TypeOK, Holding, SizeInv, SenderInv, HandleInv
  <2>3. PipeInv' /\ (SendRefused /\ writeHandle => edge \/ loop = "input")
    <3>1. CASE SendRefused
      BY <3>1 DEF TypeOK, PipeInv, Claimed, HandleInv, Callbacks
    <3>2. CASE ~SendRefused
      <4>1. Len(pipe') = Len(pipe) + 1 /\ edge' = TRUE /\ Len(pipe) < PipeCapacity
        BY <3>2 DEF TypeOK, PipeInv
      <4> HIDE DEF Write
      <4> QED
        BY <3>2, <4>1 DEF TypeOK, PipeInv, Claimed, HandleInv, Callbacks
    <3> QED
      BY <3>1, <3>2, Zenon
  <2>4. QueueWake' /\ StopWake'
    <3>1. CASE SendRefused
      BY <2>3, <3>1, Zenon DEF TypeOK, QueueWake, StopWake, LoopWillLook, Notifying, Closing,
             HandleInv, Callbacks
    <3>2. CASE ~SendRefused
      BY <3>2, Zenon DEF TypeOK, QueueWake, StopWake, LoopWillLook, Notifying, Closing,
             HandleInv, Callbacks
    <3> QED
      BY <3>1, <3>2, Zenon
  <2> QED
    BY <2>1, <2>2, <2>3, <2>4, Zenon
<1>4. CASE WaitResultAndDeleteThis(p)
  <2> USE <1>4 DEF WaitResultAndDeleteThis, Push, pipeVars, loopVars
  <2>1. TypeOK'
    BY DEF TypeOK, PosterPoints, SenderInv
  <2>2. Holding' /\ SizeInv' /\ SenderInv' /\ HandleInv'
    BY DEF TypeOK, Holding, SizeInv, SenderInv, HandleInv
  <2>3. PipeInv'
    BY Zenon DEF PipeInv, Claimed
  <2>4. QueueWake' /\ StopWake'
    BY DEF TypeOK, QueueWake, StopWake, LoopWillLook, Notifying, Closing
  <2> QED
    BY <2>1, <2>2, <2>3, <2>4, Zenon
<1>5. CASE StopEventLoop(p)
  <2> USE <1>5 DEF StopEventLoop, queueVars, pipeVars, loopVars
  <2>1. TypeOK'
    BY Zenon DEF TypeOK, PosterPoints
  <2>2. Holding' /\ SizeInv' /\ SenderInv' /\ HandleInv'
    BY Zenon DEF TypeOK, Holding, SizeInv, SenderInv, HandleInv
  <2>3. PipeInv'
    BY Zenon DEF PipeInv, Claimed
  <2>4. QueueWake' /\ StopWake'
    BY Zenon DEF TypeOK, QueueWake, StopWake, LoopWillLook, Notifying, Closing
  <2> QED
    BY <2>1, <2>2, <2>3, <2>4, Zenon
<1> QED
  BY <1>1, <1>2, <1>3, <1>4, <1>5, Zenon DEF PosterStep

\* The steps of RunEventLoop, OnInput, ProcessEvents and Close.
LEMMA LoopStepIInv ==
  ASSUME IInv, LoopStep
  PROVE  IInv'
<1> USE DEF IInv
<1>1. CASE LoopTop
  <2> USE <1>1 DEF LoopTop, Goto, queueVars, pipeVars, loopVars, posterVars
  <2>1. TypeOK'
    BY Zenon DEF TypeOK, LoopPoints, Callbacks
  <2>2. Holding' /\ SizeInv' /\ SenderInv' /\ HandleInv'
    BY Zenon DEF TypeOK, Holding, SizeInv, SenderInv, HandleInv, LoopPoints, Callbacks
  <2>3. PipeInv'
    BY Zenon DEF TypeOK, PipeInv, Claimed, HandleInv, Callbacks
  <2>4. QueueWake' /\ StopWake'
    BY Zenon DEF TypeOK, QueueWake, StopWake, LoopWillLook, Notifying, Closing,
           HandleInv, PipeInv, Callbacks, WakeupPending
  <2> QED
    BY <2>1, <2>2, <2>3, <2>4, Zenon
<1>2. CASE TimersDone
  <2> USE <1>2 DEF TimersDone, Goto, queueVars, pipeVars, loopVars, posterVars
  <2>1. TypeOK'
    BY Zenon DEF TypeOK, LoopPoints, Callbacks
  <2>2. Holding' /\ SizeInv' /\ SenderInv' /\ HandleInv'
    BY Zenon DEF TypeOK, Holding, SizeInv, SenderInv, HandleInv, LoopPoints, Callbacks
  <2>3. PipeInv'
    BY Zenon DEF TypeOK, PipeInv, Claimed, HandleInv, Callbacks
  <2>4. QueueWake' /\ StopWake'
    BY Zenon DEF TypeOK, QueueWake, StopWake, LoopWillLook, Notifying, Closing,
           HandleInv, PipeInv, Callbacks, WakeupPending
  <2> QED
    BY <2>1, <2>2, <2>3, <2>4, Zenon
<1>3. CASE EpollPipe
  <2> USE <1>3 DEF EpollPipe, Goto, queueVars, pipeVars, loopVars, posterVars
  <2>1. TypeOK'
    BY Zenon DEF TypeOK, LoopPoints, Callbacks
  <2>2. Holding' /\ SizeInv' /\ SenderInv' /\ HandleInv'
    BY Zenon DEF TypeOK, Holding, SizeInv, SenderInv, HandleInv, LoopPoints, Callbacks
  <2>3. PipeInv'
    BY DEF TypeOK, PipeInv, Claimed, WakeupPending
  <2>4. QueueWake' /\ StopWake'
    BY Zenon DEF TypeOK, QueueWake, StopWake, LoopWillLook, Notifying, Closing,
           HandleInv, PipeInv, Callbacks, WakeupPending
  <2> QED
    BY <2>1, <2>2, <2>3, <2>4, Zenon
<1>4. CASE OnInput
  <2> USE <1>4 DEF OnInput, Goto, queueVars, pipeVars, loopVars, posterVars
  <2>1. TypeOK'
    <3>1. pipe' \in Seq(Signals)
      <4>1. CASE pipe = <<>>
        BY <4>1, Zenon DEF TypeOK
      <4>2. CASE pipe # <<>>
        <5>1. pipe' = Tail(pipe)
          BY <4>2, Zenon
        <5> QED
          BY <4>2, <5>1, TailKept, Zenon DEF TypeOK
      <4> QED
        BY <4>1, <4>2, Zenon
    <3>2. loop' \in LoopPoints /\ after' \in {"handler", "top"}
      BY Zenon DEF TypeOK, LoopPoints, Callbacks
    <3>3. UNCHANGED <<resume, listEvents, dwRemainSize, iter>>
      BY Zenon
    <3> QED
      BY <3>1, <3>2, <3>3, Zenon DEF TypeOK
  <2>2. Holding' /\ SizeInv' /\ SenderInv' /\ HandleInv'
    BY Zenon DEF TypeOK, Holding, SizeInv, SenderInv, HandleInv, LoopPoints, Callbacks
  <2>3. PipeInv'
    BY DEF TypeOK, PipeInv, Claimed, HandleInv, Callbacks
  <2>4. QueueWake' /\ StopWake'
    BY Zenon DEF TypeOK, QueueWake, StopWake, LoopWillLook, Notifying, Closing,
           HandleInv, PipeInv, Callbacks, WakeupPending
  <2> QED
    BY <2>1, <2>2, <2>3, <2>4, Zenon
<1>5. CASE BatchDone
  <2> USE <1>5 DEF BatchDone, Goto, queueVars, pipeVars, loopVars, posterVars
  <2>1. TypeOK'
    BY Zenon DEF TypeOK, LoopPoints, Callbacks
  <2>2. Holding' /\ SizeInv' /\ SenderInv' /\ HandleInv'
    BY Zenon DEF TypeOK, Holding, SizeInv, SenderInv, HandleInv, LoopPoints, Callbacks
  <2>3. PipeInv'
    BY Zenon DEF TypeOK, PipeInv, Claimed, HandleInv, Callbacks
  <2>4. QueueWake' /\ StopWake'
    BY Zenon DEF TypeOK, QueueWake, StopWake, LoopWillLook, Notifying, Closing,
           HandleInv, PipeInv, Callbacks, WakeupPending
  <2> QED
    BY <2>1, <2>2, <2>3, <2>4, Zenon
<1>6. CASE PopPendingEvents
  <2> USE <1>6 DEF PopPendingEvents, Goto, queueVars, pipeVars, loopVars, posterVars
  <2>1. TypeOK'
    <3>1. loop' \in LoopPoints
      BY Zenon DEF LoopPoints
    <3>2. CASE m_dwSize = 0
      <4>1. listEvents' = <<>> /\ dwRemainSize' = 0 /\ UNCHANGED <<m_Events, m_dwSize>>
        BY <3>2
      <4> QED
        BY <3>1, <4>1 DEF TypeOK
    <3>3. CASE m_dwSize \in 1..MaxGetOnce
      <4>1. /\ listEvents' = m_Events /\ m_Events' = <<>>
            /\ m_dwSize' = 0 /\ dwRemainSize' = 0
        BY <3>3 DEF TypeOK
      <4> QED
        BY <3>1, <4>1 DEF TypeOK
    <3>4. CASE m_dwSize > MaxGetOnce
      <4>1. /\ listEvents' = SubSeq(m_Events, 1, MaxGetOnce)
            /\ m_Events' = SubSeq(m_Events, MaxGetOnce + 1, Len(m_Events))
            /\ m_dwSize' = m_dwSize - MaxGetOnce
            /\ dwRemainSize' = m_dwSize - MaxGetOnce
        BY <3>4 DEF TypeOK
      <4>2. \A i \in 1..Len(m_Events) : m_Events[i] \in Events
        BY DEF TypeOK
      <4>3. listEvents' \in Seq(Events) /\ m_Events' \in Seq(Events)
        BY <3>4, <4>1, <4>2, PartKept DEF TypeOK, SizeInv
      <4>4. m_dwSize' \in Nat /\ dwRemainSize' \in Nat
        BY <3>4, <4>1 DEF TypeOK
      <4> QED
        BY <3>1, <4>3, <4>4, Zenon DEF TypeOK
    <3> QED
      BY <3>2, <3>3, <3>4, Zenon DEF TypeOK
  <2>2. Holding' /\ SizeInv' /\ SenderInv' /\ HandleInv'
    BY DEF TypeOK, Holding, SizeInv, SenderInv, HandleInv, LoopPoints, Callbacks
  <2>3. PipeInv'
    BY Zenon DEF TypeOK, PipeInv, Claimed, HandleInv, Callbacks
  <2>4. QueueWake' /\ StopWake'
    BY Zenon DEF TypeOK, QueueWake, StopWake, LoopWillLook, Notifying, Closing,
           HandleInv, PipeInv, Callbacks, WakeupPending
  <2> QED
    BY <2>1, <2>2, <2>3, <2>4, Zenon
<1>7. CASE OnEventFire
  <2> USE <1>7 DEF OnEventFire, Goto, queueVars, pipeVars, loopVars, posterVars
  <2>1. TypeOK'
    <3>1. Head(listEvents) \in Events
      BY DEF TypeOK
    <3>2. ev' \in [Events -> EventObject]
      <4>1. PICK e \in Events : e = Head(listEvents)
        BY <3>1, Zenon
      <4>2. ev' = ev \/ ev' = [ev EXCEPT ![e].fired = @ + 1]
        BY <4>1, Zenon
      <4>3. ev \in [Events -> EventObject]
        BY Zenon DEF TypeOK
      <4>4. [ev EXCEPT ![e].fired = @ + 1] \in [Events -> EventObject]
        BY <4>3, EventUpdates, Zenon
      <4> QED
        BY <4>2, <4>3, <4>4, Zenon
    <3> QED
      BY <3>2 DEF TypeOK, LoopPoints, Callbacks
  <2>2. Holding' /\ SizeInv' /\ SenderInv' /\ HandleInv'
    BY Zenon DEF TypeOK, Holding, SizeInv, SenderInv, HandleInv, LoopPoints, Callbacks
  <2>3. PipeInv'
    BY Zenon DEF TypeOK, PipeInv, Claimed, HandleInv, Callbacks
  <2>4. QueueWake' /\ StopWake'
    BY Zenon DEF TypeOK, QueueWake, StopWake, LoopWillLook, Notifying, Closing,
           HandleInv, PipeInv, Callbacks, WakeupPending
  <2> QED
    BY <2>1, <2>2, <2>3, <2>4, Zenon
<1>8. CASE EventReturns
  <2> USE <1>8 DEF EventReturns, Goto, queueVars, pipeVars, loopVars, posterVars
  <2>1. TypeOK'
    <3>1. Head(listEvents) \in Events
      BY DEF TypeOK, Holding
    <3>2. ev' \in [Events -> EventObject]
      <4>1. PICK e \in Events : e = Head(listEvents)
        BY <3>1, Zenon
      <4>2. ev' = ev \/ ev' = [ev EXCEPT ![e].m_Result = "fired"]
        BY <4>1, Zenon
      <4>3. ev \in [Events -> EventObject]
        BY Zenon DEF TypeOK
      <4>4. [ev EXCEPT ![e].m_Result = "fired"] \in [Events -> EventObject]
        BY <4>3, EventUpdates, Zenon
      <4> QED
        BY <4>2, <4>3, <4>4, Zenon
    <3> QED
      BY <3>2, Zenon DEF TypeOK, LoopPoints, Callbacks
  <2>2. Holding' /\ SizeInv' /\ SenderInv' /\ HandleInv'
    BY Zenon DEF TypeOK, Holding, SizeInv, SenderInv, HandleInv, LoopPoints, Callbacks
  <2>3. PipeInv'
    BY Zenon DEF TypeOK, PipeInv, Claimed, HandleInv, Callbacks
  <2>4. QueueWake' /\ StopWake'
    BY Zenon DEF TypeOK, QueueWake, StopWake, LoopWillLook, Notifying, Closing,
           HandleInv, PipeInv, Callbacks, WakeupPending
  <2> QED
    BY <2>1, <2>2, <2>3, <2>4, Zenon
<1>9. CASE Signal
  <2> USE <1>9 DEF Signal, Goto, queueVars, pipeVars, loopVars, posterVars
  <2>1. TypeOK'
    <3>1. Head(listEvents) \in Events
      BY DEF TypeOK, Holding
    <3>2. ev' \in [Events -> EventObject]
      BY <3>1, EventUpdates, Zenon DEF TypeOK
    <3> QED
      BY <3>2, Zenon DEF TypeOK, LoopPoints, Callbacks
  <2>2. Holding' /\ SizeInv' /\ SenderInv' /\ HandleInv'
    BY Zenon DEF TypeOK, Holding, SizeInv, SenderInv, HandleInv, LoopPoints, Callbacks
  <2>3. PipeInv'
    BY Zenon DEF TypeOK, PipeInv, Claimed, HandleInv, Callbacks
  <2>4. QueueWake' /\ StopWake'
    BY Zenon DEF TypeOK, QueueWake, StopWake, LoopWillLook, Notifying, Closing,
           HandleInv, PipeInv, Callbacks, WakeupPending
  <2> QED
    BY <2>1, <2>2, <2>3, <2>4, Zenon
<1>10. CASE DestroyEvent
  <2> USE <1>10 DEF DestroyEvent, Goto, queueVars, pipeVars, loopVars, posterVars
  <2>1. TypeOK'
    <3>1. Head(listEvents) \in Events
      BY DEF TypeOK, Holding
    <3>2. ev' \in [Events -> EventObject]
      BY <3>1, EventUpdates, Zenon DEF TypeOK
    <3>3. listEvents' \in Seq(Events)
      BY DEF TypeOK, Holding
    <3> QED
      BY <3>2, <3>3, Zenon DEF TypeOK, LoopPoints, Callbacks
  <2>2. Holding' /\ SizeInv' /\ SenderInv' /\ HandleInv'
    BY Zenon DEF TypeOK, Holding, SizeInv, SenderInv, HandleInv, LoopPoints, Callbacks
  <2>3. PipeInv'
    BY Zenon DEF TypeOK, PipeInv, Claimed, HandleInv, Callbacks
  <2>4. QueueWake' /\ StopWake'
    BY Zenon DEF TypeOK, QueueWake, StopWake, LoopWillLook, Notifying, Closing,
           HandleInv, PipeInv, Callbacks, WakeupPending
  <2> QED
    BY <2>1, <2>2, <2>3, <2>4, Zenon
<1>11. CASE EventsDone
  <2> USE <1>11 DEF EventsDone, Goto, queueVars, pipeVars, loopVars, posterVars
  <2>1. TypeOK'
    BY Zenon DEF TypeOK, LoopPoints, Callbacks
  <2>2. Holding' /\ SizeInv' /\ SenderInv' /\ HandleInv'
    BY Zenon DEF TypeOK, Holding, SizeInv, SenderInv, HandleInv, LoopPoints, Callbacks
  <2>3. PipeInv'
    BY Zenon DEF TypeOK, PipeInv, Claimed, HandleInv, Callbacks
  <2>4. QueueWake' /\ StopWake'
    BY Zenon DEF TypeOK, QueueWake, StopWake, LoopWillLook, Notifying, Closing,
           HandleInv, PipeInv, Callbacks, WakeupPending
  <2> QED
    BY <2>1, <2>2, <2>3, <2>4, Zenon
<1>12. CASE NotifyRemain
  <2> USE <1>12 DEF NotifyRemain, Goto, queueVars, pipeVars, loopVars, posterVars, Write, SendRefused
  <2>1. TypeOK'
    <3>1. pipe' \in Seq(Signals) /\ edge' \in BOOLEAN /\ writeHandle' \in BOOLEAN
      BY WriteType, Zenon DEF TypeOK, Signals
    <3> QED
      BY <3>1, Zenon DEF TypeOK, LoopPoints, Callbacks
  <2>2. Holding' /\ SizeInv' /\ SenderInv' /\ HandleInv'
    BY Zenon DEF TypeOK, Holding, SizeInv, SenderInv, HandleInv, LoopPoints, Callbacks
  <2>3. PipeInv' /\ (SendRefused /\ writeHandle => edge \/ loop = "input")
    <3>1. CASE SendRefused
      <4>1. pipe' = pipe /\ edge' = edge /\ writeHandle' = writeHandle
        BY <3>1, Zenon
      <4>2. loop # "input" /\ loop' # "input"
        BY Zenon DEF TypeOK, Callbacks
      <4> HIDE DEF Write
      <4> QED
        BY <3>1, <4>1, <4>2 DEF TypeOK, PipeInv, Claimed
    <3>2. CASE ~SendRefused
      <4>1. Len(pipe') = Len(pipe) + 1 /\ edge' = TRUE /\ Len(pipe) < PipeCapacity
        BY <3>2 DEF TypeOK, PipeInv
      <4> HIDE DEF Write
      <4> QED
        BY <3>2, <4>1 DEF TypeOK, PipeInv, Claimed, HandleInv, Callbacks
    <3> QED
      BY <3>1, <3>2, Zenon
  <2>4. QueueWake' /\ StopWake'
    <3>1. CASE SendRefused
      BY <2>3, <3>1, Zenon DEF TypeOK, QueueWake, StopWake, LoopWillLook, Notifying, Closing,
             HandleInv, Callbacks
    <3>2. CASE ~SendRefused
      BY <3>2, Zenon DEF TypeOK, QueueWake, StopWake, LoopWillLook, Notifying, Closing,
             HandleInv, Callbacks
    <3> QED
      BY <3>1, <3>2, Zenon
  <2> QED
    BY <2>1, <2>2, <2>3, <2>4, Zenon
<1>13. CASE LoopNotify
  <2> USE <1>13 DEF LoopNotify, Goto, queueVars, pipeVars, loopVars, posterVars, Write, SendRefused
  <2>1. TypeOK'
    <3>1. pipe' \in Seq(Signals) /\ edge' \in BOOLEAN /\ writeHandle' \in BOOLEAN
      BY WriteType, Zenon DEF TypeOK, Signals
    <3> QED
      BY <3>1, Zenon DEF TypeOK, LoopPoints, Callbacks
  <2>2. Holding' /\ SizeInv' /\ SenderInv' /\ HandleInv'
    BY Zenon DEF TypeOK, Holding, SizeInv, SenderInv, HandleInv, LoopPoints, Callbacks
  <2>3. PipeInv' /\ (SendRefused /\ writeHandle => edge \/ loop = "input")
    <3>1. CASE SendRefused
      <4>1. pipe' = pipe /\ edge' = edge /\ writeHandle' = writeHandle
        BY <3>1, Zenon
      <4>2. loop # "input" /\ loop' # "input"
        BY Zenon DEF TypeOK, Callbacks
      <4> HIDE DEF Write
      <4> QED
        BY <3>1, <4>1, <4>2 DEF TypeOK, PipeInv, Claimed
    <3>2. CASE ~SendRefused
      <4>1. Len(pipe') = Len(pipe) + 1 /\ edge' = TRUE /\ Len(pipe) < PipeCapacity
        BY <3>2 DEF TypeOK, PipeInv
      <4> HIDE DEF Write
      <4> QED
        BY <3>2, <4>1 DEF TypeOK, PipeInv, Claimed, HandleInv, Callbacks
    <3> QED
      BY <3>1, <3>2, Zenon
  <2>4. QueueWake' /\ StopWake'
    <3>1. CASE SendRefused
      BY <2>3, <3>1, Zenon DEF TypeOK, QueueWake, StopWake, LoopWillLook, Notifying, Closing,
             HandleInv, Callbacks
    <3>2. CASE ~SendRefused
      BY <3>2, Zenon DEF TypeOK, QueueWake, StopWake, LoopWillLook, Notifying, Closing,
             HandleInv, Callbacks
    <3> QED
      BY <3>1, <3>2, Zenon
  <2> QED
    BY <2>1, <2>2, <2>3, <2>4, Zenon
<1>14. CASE LoopEnd
  <2> USE <1>14 DEF LoopEnd, Goto, queueVars, pipeVars, loopVars, posterVars
  <2>1. TypeOK'
    BY Zenon DEF TypeOK, LoopPoints, Callbacks
  <2>2. Holding' /\ SizeInv' /\ SenderInv' /\ HandleInv'
    BY Zenon DEF TypeOK, Holding, SizeInv, SenderInv, HandleInv, LoopPoints, Callbacks
  <2>3. PipeInv'
    BY Zenon DEF TypeOK, PipeInv, Claimed, HandleInv, Callbacks
  <2>4. QueueWake' /\ StopWake'
    BY Zenon DEF TypeOK, QueueWake, StopWake, LoopWillLook, Notifying, Closing,
           HandleInv, PipeInv, Callbacks, WakeupPending
  <2> QED
    BY <2>1, <2>2, <2>3, <2>4, Zenon
<1>15. CASE NotifyClose
  <2> USE <1>15 DEF NotifyClose, Goto, queueVars, pipeVars, loopVars, posterVars
  <2>1. TypeOK'
    <3>1. edge' \in BOOLEAN /\ writeHandle' \in BOOLEAN
      BY Zenon
    <3>2. pipe' \in Seq(Signals) /\ loop' \in LoopPoints
      BY DEF LoopPoints
    <3> QED
      BY <3>1, <3>2, Zenon DEF TypeOK
  <2>2. Holding' /\ SizeInv' /\ SenderInv' /\ HandleInv'
    BY Zenon DEF TypeOK, Holding, SizeInv, SenderInv, HandleInv, LoopPoints, Callbacks
  <2>3. PipeInv'
    BY DEF TypeOK, PipeInv, Claimed, HandleInv, Callbacks
  <2>4. QueueWake' /\ StopWake'
    BY Zenon DEF TypeOK, QueueWake, StopWake, LoopWillLook, Notifying, Closing,
           HandleInv, PipeInv, Callbacks, WakeupPending
  <2> QED
    BY <2>1, <2>2, <2>3, <2>4, Zenon
<1>16. CASE DestroyPending
  <2> USE <1>16 DEF DestroyPending, Goto, queueVars, pipeVars, loopVars, posterVars
  <2>1. TypeOK'
    <3>1. ev' \in [Events -> EventObject] /\ iter' \in Nat \ {0}
      <4>1. CASE iter <= Len(m_Events)
        <5>1. m_Events[iter] \in Events
          BY <4>1 DEF TypeOK
        <5>2. ev' = [ev EXCEPT ![m_Events[iter]] = OnDestorySelf(@)] /\ iter' = iter + 1
          BY <4>1, Zenon
        <5>3. ev' \in [Events -> EventObject]
          BY <5>1, <5>2, EventUpdates, Zenon DEF TypeOK
        <5> QED
          BY <5>2, <5>3, SMTT(30) DEF TypeOK
      <4>2. CASE ~(iter <= Len(m_Events))
        BY <4>2, Zenon DEF TypeOK
      <4> QED
        BY <4>1, <4>2, Zenon
    <3> QED
      BY <3>1, Zenon DEF TypeOK, LoopPoints, Callbacks
  <2>2. Holding' /\ SizeInv' /\ SenderInv' /\ HandleInv'
    BY Zenon DEF TypeOK, Holding, SizeInv, SenderInv, HandleInv, LoopPoints, Callbacks
  <2>3. PipeInv'
    BY Zenon DEF TypeOK, PipeInv, Claimed, HandleInv, Callbacks
  <2>4. QueueWake' /\ StopWake'
    BY Zenon DEF TypeOK, QueueWake, StopWake, LoopWillLook, Notifying, Closing,
           HandleInv, PipeInv, Callbacks, WakeupPending
  <2> QED
    BY <2>1, <2>2, <2>3, <2>4, Zenon
<1>17. CASE ClearPending
  <2> USE <1>17 DEF ClearPending, Goto, queueVars, pipeVars, loopVars, posterVars
  <2>1. TypeOK'
    BY DEF TypeOK, LoopPoints, Callbacks
  <2>2. Holding' /\ SizeInv' /\ SenderInv' /\ HandleInv'
    BY Zenon DEF TypeOK, Holding, SizeInv, SenderInv, HandleInv, LoopPoints, Callbacks
  <2>3. PipeInv'
    BY Zenon DEF TypeOK, PipeInv, Claimed, HandleInv, Callbacks
  <2>4. QueueWake' /\ StopWake'
    BY Zenon DEF TypeOK, QueueWake, StopWake, LoopWillLook, Notifying, Closing,
           HandleInv, PipeInv, Callbacks, WakeupPending
  <2> QED
    BY <2>1, <2>2, <2>3, <2>4, Zenon
<1> QED
  BY <1>1, <1>2, <1>3, <1>4, <1>5, <1>6, <1>7, <1>8, <1>9, <1>10, <1>11, <1>12, <1>13, <1>14, <1>15, <1>16, <1>17, Zenon DEF LoopStep

\* What descriptors, timers and callbacks make the loop thread do.
LEMMA LoopChoiceIInv ==
  ASSUME IInv, LoopChoice
  PROVE  IInv'
<1> USE DEF IInv
<1>1. CASE EpollOther
  <2> USE <1>1 DEF EpollOther, Goto, queueVars, pipeVars, loopVars, posterVars
  <2>1. TypeOK'
    BY Zenon DEF TypeOK, LoopPoints, Callbacks
  <2>2. Holding' /\ SizeInv' /\ SenderInv' /\ HandleInv'
    BY Zenon DEF TypeOK, Holding, SizeInv, SenderInv, HandleInv, LoopPoints, Callbacks
  <2>3. PipeInv'
    BY Zenon DEF TypeOK, PipeInv, Claimed, HandleInv, Callbacks
  <2>4. QueueWake' /\ StopWake'
    BY Zenon DEF TypeOK, QueueWake, StopWake, LoopWillLook, Notifying, Closing,
           HandleInv, PipeInv, Callbacks, WakeupPending
  <2> QED
    BY <2>1, <2>2, <2>3, <2>4, Zenon
<1>2. CASE EpollTimeout
  <2> USE <1>2 DEF EpollTimeout, Goto, queueVars, pipeVars, loopVars, posterVars
  <2>1. TypeOK'
    BY Zenon DEF TypeOK, LoopPoints, Callbacks
  <2>2. Holding' /\ SizeInv' /\ SenderInv' /\ HandleInv'
    BY Zenon DEF TypeOK, Holding, SizeInv, SenderInv, HandleInv, LoopPoints, Callbacks
  <2>3. PipeInv'
    BY Zenon DEF TypeOK, PipeInv, Claimed, HandleInv, Callbacks
  <2>4. QueueWake' /\ StopWake'
    BY Zenon DEF TypeOK, QueueWake, StopWake, LoopWillLook, Notifying, Closing,
           HandleInv, PipeInv, Callbacks, WakeupPending
  <2> QED
    BY <2>1, <2>2, <2>3, <2>4, Zenon
<1>3. CASE EpollError
  <2> USE <1>3 DEF EpollError, Goto, queueVars, pipeVars, loopVars, posterVars
  <2>1. TypeOK'
    BY Zenon DEF TypeOK, LoopPoints, Callbacks
  <2>2. Holding' /\ SizeInv' /\ SenderInv' /\ HandleInv'
    BY Zenon DEF TypeOK, Holding, SizeInv, SenderInv, HandleInv, LoopPoints, Callbacks
  <2>3. PipeInv'
    BY Zenon DEF TypeOK, PipeInv, Claimed, HandleInv, Callbacks
  <2>4. QueueWake' /\ StopWake'
    BY Zenon DEF TypeOK, QueueWake, StopWake, LoopWillLook, Notifying, Closing,
           HandleInv, PipeInv, Callbacks, WakeupPending
  <2> QED
    BY <2>1, <2>2, <2>3, <2>4, Zenon
<1>4. ASSUME NEW e \in Events, LoopPostEvent(e) PROVE IInv'
  <2> USE <1>4 DEF LoopPostEvent, Goto, queueVars, pipeVars, loopVars, posterVars, Push
  <2>1. TypeOK'
    <3>1. ev' \in [Events -> EventObject]
      BY EventUpdates, Zenon DEF TypeOK
    <3>2. m_Events' \in Seq(Events) /\ m_dwSize' \in Nat
      BY DEF TypeOK
    <3> QED
      BY <3>1, <3>2 DEF TypeOK, LoopPoints, Callbacks
  <2>2. Holding' /\ SizeInv' /\ SenderInv' /\ HandleInv'
    BY SMTT(30) DEF TypeOK, Holding, SizeInv, SenderInv, HandleInv, LoopPoints, Callbacks
  <2>3. PipeInv'
    BY Zenon DEF TypeOK, PipeInv, Claimed, HandleInv, Callbacks
  <2>4. QueueWake' /\ StopWake'
    BY DEF TypeOK, QueueWake, StopWake, LoopWillLook, Notifying, Closing,
           HandleInv, PipeInv, Callbacks, WakeupPending
  <2> QED
    BY <2>1, <2>2, <2>3, <2>4, Zenon
<1>5. ASSUME NEW e \in Events, LoopSendEvent(e) PROVE IInv'
  <2> USE <1>5 DEF LoopSendEvent, Goto, queueVars, pipeVars, loopVars, posterVars
  <2>1. TypeOK'
    <3>1. ev' \in [Events -> EventObject]
      BY EventUpdates, Zenon DEF TypeOK
    <3> QED
      BY <3>1, Zenon DEF TypeOK
  <2>2. Holding' /\ SizeInv' /\ SenderInv' /\ HandleInv'
    BY Zenon DEF TypeOK, Holding, SizeInv, SenderInv, HandleInv, LoopPoints, Callbacks
  <2>3. PipeInv'
    BY Zenon DEF TypeOK, PipeInv, Claimed, HandleInv, Callbacks
  <2>4. QueueWake' /\ StopWake'
    BY Zenon DEF TypeOK, QueueWake, StopWake, LoopWillLook, Notifying, Closing,
           HandleInv, PipeInv, Callbacks, WakeupPending
  <2> QED
    BY <2>1, <2>2, <2>3, <2>4, Zenon
<1> QED
  BY <1>1, <1>2, <1>3, <1>4, <1>5, Zenon DEF LoopChoice

\* The inductive invariant holds in every reachable state.
THEOREM Invariance == Spec => []IInv
<1>1. Init => IInv
  BY InitIInv, Zenon
<1>2. IInv /\ [Next]_vars => IInv'
  <2> SUFFICES ASSUME IInv, [Next]_vars PROVE IInv'
    BY Zenon
  <2>1. CASE Next
    BY <2>1, PosterStepIInv, LoopStepIInv, LoopChoiceIInv, Zenon DEF Next
  <2>2. CASE UNCHANGED vars
    BY <2>2, SMTT(30) DEF vars, queueVars, pipeVars, loopVars, posterVars, IInv, TypeOK,
      Holding, SizeInv, SenderInv, HandleInv, PipeInv, Claimed, QueueWake, StopWake,
      LoopWillLook, Notifying
  <2> QED
    BY <2>1, <2>2, Zenon
<1> QED
  BY <1>1, <1>2, PTL DEF Spec

\* Every variable of the reactor keeps its type, whatever the threads do.
THEOREM TypeCorrect == Spec => []TypeOK
<1>1. IInv => TypeOK
  BY Zenon DEF IInv
<1> QED
  BY <1>1, Invariance, PTL

\* The wake-up protocol of PostEvent and OnInput is sound for any number of
\* threads and events, any pop limit and any pipe: the loop thread sleeps over
\* pending events only if the pipe's edge or a writing thread will wake it.
THEOREM WakeupNotLost == Spec => []NoLostWakeup
<1>1. IInv => NoLostWakeup
  BY DEF IInv, TypeOK, NoLostWakeup, QueueWake, LoopWillLook, Closing, PipeInv,
         Claimed, WakeupPending
<1> QED
  BY <1>1, Invariance, PTL

\* StopEventLoop always wakes the loop thread.
THEOREM StopNotLost == Spec => []NoLostStop
<1>1. IInv => NoLostStop
  BY DEF IInv, TypeOK, NoLostStop, StopWake, PipeInv, Claimed, WakeupPending
<1> QED
  BY <1>1, Invariance, PTL

\* A record refused by the full notify pipe is never the one that a sleeping
\* loop thread needs.
THEOREM RefusalHarmless == Spec => []RefusedNotifyHarmless
<1>1. IInv => RefusedNotifyHarmless
  BY DEF IInv, TypeOK, RefusedNotifyHarmless, SendRefused, PipeInv, Claimed, HandleInv, WakeupPending
<1> QED
  BY <1>1, Invariance, PTL
=============================================================================
