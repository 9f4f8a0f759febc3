------------------------------- MODULE Reactor -------------------------------
(***************************************************************************)
(* The event loop of fstackutils: CFSReactorEpoll (RunEventLoop, Stop,     *)
(* Close) over CFSReactorBase and CFSEventQueueUsingMutex, woken through   *)
(* CFSReactorNotifyPipe, with the synchronous events of SendEvent          *)
(* (CFSEventSynchronous).                                                  *)
(*                                                                         *)
(* Posters are the threads other than the loop thread.  A step is what     *)
(* one thread does between two points where another thread can observe it: *)
(* a section under m_Mutex, one send or recv on the notify pipe, one       *)
(* OnEventFire, Signal or OnDestorySelf.  The state starts after Open().   *)
(***************************************************************************)
EXTENDS Integers, Sequences

CONSTANTS Posters,       \* threads that call PostEvent, SendEvent, Stop
          Events,        \* event objects, each handed to the queue once
          NoEvent,       \* no event (NULL)
          MaxGetOnce,    \* MAX_GET_ONCE
          PipeCapacity   \* CBuffer records the notify pipe holds

ASSUME MaxGetOnceAssumption == MaxGetOnce \in Nat \ {0}
ASSUME PipeCapacityAssumption == PipeCapacity \in Nat \ {0}
ASSUME NoEventAssumption == NoEvent \notin Events

VARIABLES
  m_Events,        \* the list of pending events
  m_dwSize,        \* its recorded size
  pipe,            \* records in the notify pipe, oldest first
  edge,            \* the pipe's EV_CLEAR knote is active
  writeHandle,     \* the write end of the pipe is open
  m_bStoppedFlag,  \* CAWStopFlag of the reactor
  loop,            \* where the loop thread is
  after,           \* where ProcessHandleEvent(-1) returns to
  resume,          \* the callback a PostEvent of the loop thread returns to
  listEvents,      \* the events popped and not yet processed
  dwRemainSize,    \* the size left behind by the pop
  iter,            \* iterator of DestoryPendingEvents
  pc,              \* where each poster is
  sending,         \* the CFSEventSynchronous a poster is sending
  ev               \* the event objects

queueVars == <<m_Events, m_dwSize>>
pipeVars == <<pipe, edge, writeHandle>>
loopVars == <<loop, after, resume, listEvents, dwRemainSize, iter>>
posterVars == <<pc, sending>>
vars == <<queueVars, pipeVars, m_bStoppedFlag, loopVars, posterVars, ev>>

Signals == {"EVENTQUEUE", "STOP"}
\* The loop thread is inside user code, which may post to its own reactor.
Callbacks == {"timer", "handler", "callback"}
LoopPoints == Callbacks \cup
  {"top", "wait", "input", "pop", "process", "signal", "destroy", "remain",
   "loopnotify", "end", "close", "sweep", "clear", "closed"}
Closing == {"end", "close", "sweep", "clear", "closed"}
PosterPoints == {"idle", "notify", "stopnotify", "wait"}
Results == {"NOT_AVAILABLE", "fired"}

EventObject == [kind : {"unused", "plain", "sync"}, fired : Nat,
                m_bHasDestoryed : BOOLEAN, m_Result : Results,
                signalled : BOOLEAN, deleted : Nat]

Unused == [kind |-> "unused", fired |-> 0, m_bHasDestoryed |-> FALSE,
           m_Result |-> "NOT_AVAILABLE", signalled |-> FALSE, deleted |-> 0]

Init ==
  /\ m_Events = <<>> /\ m_dwSize = 0
  /\ pipe = <<>> /\ edge = FALSE /\ writeHandle = TRUE
  /\ m_bStoppedFlag = FALSE
  /\ loop = "top" /\ after = "top" /\ resume = "timer"
  /\ listEvents = <<>> /\ dwRemainSize = 0 /\ iter = 1
  /\ pc = [p \in Posters |-> "idle"]
  /\ sending = [p \in Posters |-> NoEvent]
  /\ ev = [e \in Events |-> Unused]

-----------------------------------------------------------------------------
(* The queue and the pipe. *)

\* CFSEventQueueBase::PostEvent under m_Mutex.
Push(e) ==
  /\ m_Events' = Append(m_Events, e)
  /\ m_dwSize' = m_dwSize + 1

\* The stack is built with a __sleep that returns EWOULDBLOCK at once, so a
\* send that finds the pipe full fails although the write end is blocking; a
\* closed pipe refuses as well.
SendRefused == ~writeHandle \/ Len(pipe) = PipeCapacity

\* CFSReactorNotifyPipe::Notify.  A refused record is traced and forgotten; a
\* written one activates the knote of the read end.
Write(signal) ==
  \/ /\ ~SendRefused
     /\ pipe' = Append(pipe, signal)
     /\ edge' = TRUE
     /\ UNCHANGED writeHandle
  \/ /\ SendRefused
     /\ UNCHANGED pipeVars

\* Mutant: the first OnDestorySelf of a synchronous event deletes it.
OnDestorySelfAtOnce(r) == [r EXCEPT !.deleted = @ + 1]

\* What OnDestorySelf leaves of an event object: a synchronous event is
\* deleted the second time only.
OnDestorySelf(r) ==
  IF r.kind = "sync" /\ ~r.m_bHasDestoryed
    THEN [r EXCEPT !.m_bHasDestoryed = TRUE]
    ELSE [r EXCEPT !.deleted = @ + 1]

-----------------------------------------------------------------------------
(* The other threads. *)

\* Mutant: the old size is read after the push.
PostEventNewSize(p, e) ==
  /\ pc[p] = "idle"
  /\ ev[e].kind = "unused"
  /\ ev' = [ev EXCEPT ![e].kind = "plain"]
  /\ Push(e)
  /\ pc' = [pc EXCEPT ![p] = IF m_dwSize' = 0 THEN "notify" ELSE "idle"]
  /\ UNCHANGED <<pipeVars, m_bStoppedFlag, loopVars, sending>>

PostEvent(p, e) ==
  /\ pc[p] = "idle"
  /\ ev[e].kind = "unused"
  /\ ev' = [ev EXCEPT ![e].kind = "plain"]
  /\ Push(e)
  /\ pc' = [pc EXCEPT ![p] = IF m_dwSize = 0 THEN "notify" ELSE "idle"]
  /\ UNCHANGED <<pipeVars, m_bStoppedFlag, loopVars, sending>>

SendEvent(p, e) ==
  /\ pc[p] = "idle"
  /\ ev[e].kind = "unused"
  /\ ev' = [ev EXCEPT ![e].kind = "sync"]
  /\ Push(e)
  /\ sending' = [sending EXCEPT ![p] = e]
  /\ pc' = [pc EXCEPT ![p] = IF m_dwSize = 0 THEN "notify" ELSE "wait"]
  /\ UNCHANGED <<pipeVars, m_bStoppedFlag, loopVars>>

Notify(p) ==
  /\ pc[p] \in {"notify", "stopnotify"}
  /\ Write(IF pc[p] = "notify" THEN "EVENTQUEUE" ELSE "STOP")
  /\ pc' = [pc EXCEPT ![p] = IF sending[p] = NoEvent THEN "idle" ELSE "wait"]
  /\ UNCHANGED <<queueVars, m_bStoppedFlag, loopVars, sending, ev>>

\* The sender is woken, takes m_Result and posts the event again so that the
\* loop thread deletes it.
WaitResultAndDeleteThis(p) ==
  /\ pc[p] = "wait"
  /\ ev[sending[p]].signalled
  /\ Push(sending[p])
  /\ sending' = [sending EXCEPT ![p] = NoEvent]
  /\ pc' = [pc EXCEPT ![p] = IF m_dwSize = 0 THEN "notify" ELSE "idle"]
  /\ UNCHANGED <<pipeVars, m_bStoppedFlag, loopVars, ev>>

\* Mutant: the loop thread is not woken.
StopEventLoopSilently(p) ==
  /\ pc[p] = "idle"
  /\ ~m_bStoppedFlag
  /\ m_bStoppedFlag' = TRUE
  /\ UNCHANGED <<queueVars, pipeVars, loopVars, posterVars, ev>>

\* Bound: one call; a second one would only write one more STOP record.
StopEventLoop(p) ==
  /\ pc[p] = "idle"
  /\ ~m_bStoppedFlag
  /\ m_bStoppedFlag' = TRUE
  /\ pc' = [pc EXCEPT ![p] = "stopnotify"]
  /\ UNCHANGED <<queueVars, pipeVars, loopVars, sending, ev>>

-----------------------------------------------------------------------------
(* The loop thread: RunEventLoop. *)

Goto(point) ==
  /\ loop' = point
  /\ UNCHANGED <<after, resume, listEvents, dwRemainSize, iter>>

\* The while condition, then the expired timers are run.
LoopTop ==
  /\ loop = "top"
  /\ Goto(IF m_bStoppedFlag THEN "end" ELSE "timer")
  /\ UNCHANGED <<queueVars, pipeVars, m_bStoppedFlag, posterVars, ev>>

TimersDone ==
  /\ loop = "timer"
  /\ Goto("wait")
  /\ UNCHANGED <<queueVars, pipeVars, m_bStoppedFlag, posterVars, ev>>

\* epoll_wait has the pipe to report.
WakeupPending == edge /\ pipe # <<>>

\* epoll_wait reports the pipe: EV_CLEAR makes the knote inactive.
EpollPipe ==
  /\ loop = "wait"
  /\ WakeupPending
  /\ edge' = FALSE
  /\ Goto("input")
  /\ UNCHANGED <<queueVars, pipe, writeHandle, m_bStoppedFlag, posterVars, ev>>

\* epoll_wait reports other descriptors only (MAX_EVENTS of them, when the
\* pipe is ready too).
EpollOther ==
  /\ loop = "wait"
  /\ Goto("handler")
  /\ UNCHANGED <<queueVars, pipeVars, m_bStoppedFlag, posterVars, ev>>

\* Mutant: nothing is ready, so nothing is done.
EpollTimeoutIdle ==
  /\ loop = "wait"
  /\ ~WakeupPending
  /\ Goto("top")
  /\ UNCHANGED <<queueVars, pipeVars, m_bStoppedFlag, posterVars, ev>>

\* nfds = 0: the timeout of the next timer.
EpollTimeout ==
  /\ loop = "wait"
  /\ ~WakeupPending
  /\ loop' = "pop" /\ after' = "top"
  /\ UNCHANGED <<resume, listEvents, dwRemainSize, iter>>
  /\ UNCHANGED <<queueVars, pipeVars, m_bStoppedFlag, posterVars, ev>>

\* nfds = -1: RunEventLoop returns and OnThreadRun closes the reactor.
EpollError ==
  /\ loop = "wait"
  /\ Goto("close")
  /\ UNCHANGED <<queueVars, pipeVars, m_bStoppedFlag, posterVars, ev>>

\* Mutant: the edge is consumed and the record stays in the pipe.
OnInputReadsNothing ==
  /\ loop = "input"
  /\ Goto("handler")
  /\ UNCHANGED <<queueVars, pipeVars, m_bStoppedFlag, posterVars, ev>>

\* CFSReactorNotifyPipe::OnInput reads one record, whatever is in the pipe.
OnInput ==
  /\ loop = "input"
  /\ IF pipe = <<>>
       THEN Goto("handler") /\ UNCHANGED pipe
       ELSE /\ pipe' = Tail(pipe)
            /\ IF Head(pipe) = "STOP"
                 THEN Goto("handler")
                 ELSE /\ loop' = "pop" /\ after' = "handler"
                      /\ UNCHANGED <<resume, listEvents, dwRemainSize, iter>>
  /\ UNCHANGED <<queueVars, edge, writeHandle, m_bStoppedFlag, posterVars, ev>>

\* The rest of the batch is handled: the queue is processed once more.
BatchDone ==
  /\ loop = "handler"
  /\ loop' = "pop" /\ after' = "top"
  /\ UNCHANGED <<resume, listEvents, dwRemainSize, iter>>
  /\ UNCHANGED <<queueVars, pipeVars, m_bStoppedFlag, posterVars, ev>>

\* Mutant: a partial pop takes the newest events.
PopPendingEventsNewestFirst ==
  /\ loop = "pop"
  /\ loop' = "process"
  /\ IF m_dwSize <= MaxGetOnce
       THEN /\ listEvents' = m_Events /\ m_Events' = <<>>
            /\ m_dwSize' = 0 /\ dwRemainSize' = 0
       ELSE /\ listEvents' = SubSeq(m_Events, m_dwSize - MaxGetOnce + 1, m_dwSize)
            /\ m_Events' = SubSeq(m_Events, 1, m_dwSize - MaxGetOnce)
            /\ m_dwSize' = m_dwSize - MaxGetOnce
            /\ dwRemainSize' = m_dwSize - MaxGetOnce
  /\ UNCHANGED <<after, resume, iter>>
  /\ UNCHANGED <<pipeVars, m_bStoppedFlag, posterVars, ev>>

PopPendingEvents ==
  /\ loop = "pop"
  /\ loop' = "process"
  /\ \/ /\ m_dwSize = 0
        /\ listEvents' = <<>> /\ dwRemainSize' = 0
        /\ UNCHANGED queueVars
     \/ /\ m_dwSize \in 1..MaxGetOnce
        /\ listEvents' = m_Events /\ m_Events' = <<>>
        /\ m_dwSize' = 0 /\ dwRemainSize' = 0
     \/ /\ m_dwSize > MaxGetOnce
        /\ listEvents' = SubSeq(m_Events, 1, MaxGetOnce)
        /\ m_Events' = SubSeq(m_Events, MaxGetOnce + 1, Len(m_Events))
        /\ m_dwSize' = m_dwSize - MaxGetOnce
        /\ dwRemainSize' = m_dwSize - MaxGetOnce
  /\ UNCHANGED <<after, resume, iter>>
  /\ UNCHANGED <<pipeVars, m_bStoppedFlag, posterVars, ev>>

-----------------------------------------------------------------------------
(* ProcessEvents: fire and destroy each popped event. *)

\* OnEventFire enters the callback; a synchronous event that comes back to be
\* deleted does nothing.
OnEventFire ==
  /\ loop = "process"
  /\ listEvents # <<>>
  /\ LET e == Head(listEvents) IN
       IF ev[e].m_bHasDestoryed
         THEN Goto("destroy") /\ UNCHANGED ev
         ELSE /\ Goto("callback")
              /\ ev' = [ev EXCEPT ![e].fired = @ + 1]
  /\ UNCHANGED <<queueVars, pipeVars, m_bStoppedFlag, posterVars>>

\* Mutant: the sender is signalled before m_Result is stored.
EventReturnsSignalFirst ==
  /\ loop = "callback"
  /\ LET e == Head(listEvents) IN
       IF ev[e].kind = "sync"
         THEN Goto("signal") /\ ev' = [ev EXCEPT ![e].signalled = TRUE]
         ELSE Goto("destroy") /\ UNCHANGED ev
  /\ UNCHANGED <<queueVars, pipeVars, m_bStoppedFlag, posterVars>>

\* The callback returns; CFSEventSynchronous stores its result.
EventReturns ==
  /\ loop = "callback"
  /\ LET e == Head(listEvents) IN
       IF ev[e].kind = "sync"
         THEN /\ Goto("signal")
              /\ ev' = [ev EXCEPT ![e].m_Result = "fired"]
         ELSE Goto("destroy") /\ UNCHANGED ev
  /\ UNCHANGED <<queueVars, pipeVars, m_bStoppedFlag, posterVars>>

\* Mutant: the waiting sender is forgotten.
SignalForgotten ==
  /\ loop = "signal"
  /\ Goto("destroy")
  /\ UNCHANGED <<queueVars, pipeVars, m_bStoppedFlag, posterVars, ev>>

Signal ==
  /\ loop = "signal"
  /\ ev' = [ev EXCEPT ![Head(listEvents)].signalled = TRUE]
  /\ Goto("destroy")
  /\ UNCHANGED <<queueVars, pipeVars, m_bStoppedFlag, posterVars>>

DestroyEvent ==
  /\ loop = "destroy"
  /\ ev' = [ev EXCEPT ![Head(listEvents)] = OnDestorySelf(@)]
  /\ listEvents' = Tail(listEvents)
  /\ loop' = "process"
  /\ UNCHANGED <<after, resume, dwRemainSize, iter>>
  /\ UNCHANGED <<queueVars, pipeVars, m_bStoppedFlag, posterVars>>

\* Mutant: the events left behind are not announced.
EventsDoneQuietly ==
  /\ loop = "process"
  /\ listEvents = <<>>
  /\ Goto(after)
  /\ UNCHANGED <<queueVars, pipeVars, m_bStoppedFlag, posterVars, ev>>

\* The list is done; what the pop left behind is announced again.
EventsDone ==
  /\ loop = "process"
  /\ listEvents = <<>>
  /\ Goto(IF dwRemainSize > 0 THEN "remain" ELSE after)
  /\ UNCHANGED <<queueVars, pipeVars, m_bStoppedFlag, posterVars, ev>>

NotifyRemain ==
  /\ loop = "remain"
  /\ Write("EVENTQUEUE")
  /\ Goto(after)
  /\ UNCHANGED <<queueVars, m_bStoppedFlag, posterVars, ev>>

\* A callback on the loop thread posts to its own reactor.
LoopPostEvent(e) ==
  /\ loop \in Callbacks
  /\ ev[e].kind = "unused"
  /\ ev' = [ev EXCEPT ![e].kind = "plain"]
  /\ Push(e)
  /\ IF m_dwSize = 0
       THEN loop' = "loopnotify" /\ resume' = loop
       ELSE UNCHANGED <<loop, resume>>
  /\ UNCHANGED <<after, listEvents, dwRemainSize, iter>>
  /\ UNCHANGED <<pipeVars, m_bStoppedFlag, posterVars>>

LoopNotify ==
  /\ loop = "loopnotify"
  /\ Write("EVENTQUEUE")
  /\ Goto(resume)
  /\ UNCHANGED <<queueVars, m_bStoppedFlag, posterVars, ev>>

\* SendEvent on the loop thread fires and destroys the event in place.
LoopSendEvent(e) ==
  /\ loop \in Callbacks
  /\ ev[e].kind = "unused"
  /\ ev' = [ev EXCEPT ![e].kind = "plain", ![e].fired = @ + 1,
                        ![e].deleted = @ + 1]
  /\ UNCHANGED <<queueVars, pipeVars, m_bStoppedFlag, loopVars, posterVars>>

-----------------------------------------------------------------------------
(* The end of the loop thread: OnThreadRun calls Close. *)

LoopEnd ==
  /\ loop = "end"
  /\ Goto("close")
  /\ UNCHANGED <<queueVars, pipeVars, m_bStoppedFlag, posterVars, ev>>

\* m_Notify.Close() closes both ends of the pipe.
NotifyClose ==
  /\ loop = "close"
  /\ pipe' = <<>> /\ edge' = FALSE /\ writeHandle' = FALSE
  /\ Goto("sweep")
  /\ UNCHANGED <<queueVars, m_bStoppedFlag, posterVars, ev>>

\* DestoryPendingEvents walks the list without m_Mutex ...
DestroyPending ==
  /\ loop = "sweep"
  /\ IF iter <= Len(m_Events)
       THEN /\ ev' = [ev EXCEPT ![m_Events[iter]] = OnDestorySelf(@)]
            /\ iter' = iter + 1
            /\ UNCHANGED <<loop, after, resume, listEvents, dwRemainSize>>
       ELSE Goto("clear") /\ UNCHANGED ev
  /\ UNCHANGED <<queueVars, pipeVars, m_bStoppedFlag, posterVars>>

\* ... and clears it; m_dwSize keeps its value.
ClearPending ==
  /\ loop = "clear"
  /\ m_Events' = <<>>
  /\ Goto("closed")
  /\ UNCHANGED <<m_dwSize, pipeVars, m_bStoppedFlag, posterVars, ev>>

-----------------------------------------------------------------------------
PosterStep(p) ==
  \/ \E e \in Events : PostEvent(p, e) \/ SendEvent(p, e)
  \/ Notify(p)
  \/ WaitResultAndDeleteThis(p)
  \/ StopEventLoop(p)

\* The steps the loop thread takes by itself once it runs.
LoopStep ==
  \/ LoopTop \/ TimersDone \/ EpollPipe \/ OnInput \/ BatchDone
  \/ PopPendingEvents \/ OnEventFire \/ EventReturns \/ Signal
  \/ DestroyEvent \/ EventsDone \/ NotifyRemain \/ LoopNotify
  \/ LoopEnd \/ NotifyClose \/ DestroyPending \/ ClearPending

\* What the descriptors, the timers and the callbacks may add.
LoopChoice ==
  \/ EpollOther \/ EpollTimeout \/ EpollError
  \/ \E e \in Events : LoopPostEvent(e) \/ LoopSendEvent(e)

Next == (\E p \in Posters : PosterStep(p)) \/ LoopStep \/ LoopChoice

Spec == Init /\ [][Next]_vars

\* Threads are scheduled by the host: a loop thread that is not in epoll_wait
\* with nothing to report runs on, and so does a poster in the middle of
\* Notify or a sender that has been signalled.  Nobody has to post or to stop.
Fairness ==
  /\ WF_vars(LoopStep)
  /\ \A p \in Posters : WF_vars(Notify(p)) /\ WF_vars(WaitResultAndDeleteThis(p))

FairSpec == Spec /\ Fairness

-----------------------------------------------------------------------------
(* Properties *)

\* Every variable has its type; sizes and counters do not run below zero.
TypeOK ==
  /\ m_Events \in Seq(Events) /\ m_dwSize \in Nat
  /\ pipe \in Seq(Signals) /\ edge \in BOOLEAN /\ writeHandle \in BOOLEAN
  /\ m_bStoppedFlag \in BOOLEAN
  /\ loop \in LoopPoints /\ after \in {"handler", "top"} /\ resume \in Callbacks
  /\ listEvents \in Seq(Events) /\ dwRemainSize \in Nat /\ iter \in Nat \ {0}
  /\ pc \in [Posters -> PosterPoints]
  /\ sending \in [Posters -> Events \cup {NoEvent}]
  /\ ev \in [Events -> EventObject]

\* Some thread is about to write to the notify pipe.
Notifying == \E p \in Posters : pc[p] \in {"notify", "stopnotify"}

\* The events on their way through the loop thread, oldest first.
Queue == listEvents \o m_Events

\* The accepted events still to be fired ...
Unfired ==
  {e \in Events : /\ loop \notin Closing /\ ev[e].fired = 0
                  /\ \E i \in 1..Len(Queue) : Queue[i] = e}

\* ... and those of them that are in front of e.
InFront(e) ==
  {f \in Unfired : /\ e \in Unfired
                   /\ \E i, j \in 1..Len(Queue) :
                        i < j /\ Queue[i] = f /\ Queue[j] = e}

Service == INSTANCE EventService
             WITH pending <- Unfired,
                  ahead <- [e \in Events |-> InFront(e)],
                  fired <- {e \in Events : ev[e].fired > 0},
                  open <- loop \notin Closing

\* The reactor implements EventService: with partial pops and synchronous
\* events posted twice, events fire in the order of PostEvent, once each, and
\* none after the loop has ended.
ServiceSpec == Service!ServiceSpec

\* PostEvent notifies outside m_Mutex and only when the queue was empty, and
\* OnInput reads one record per edge.  Still the loop thread never sleeps in
\* epoll_wait over a non-empty queue unless a wake-up is on its way: the edge
\* of the pipe is pending with a record to read, or the thread that owes the
\* record is writing it.
NoLostWakeup ==
  loop = "wait" /\ m_dwSize > 0 => WakeupPending \/ Notifying

\* StopEventLoop sets the flag before it writes: the loop thread that missed
\* the flag at the top of the while is woken.
NoLostStop ==
  loop = "wait" /\ m_bStoppedFlag =>
    WakeupPending \/ \E p \in Posters : pc[p] = "stopnotify"

\* The references the queue, the loop and the senders hold to event objects.
Referenced ==
  {m_Events[i] : i \in 1..Len(m_Events)}
    \cup {listEvents[i] : i \in 1..Len(listEvents)}
    \cup {sending[p] : p \in {q \in Posters : pc[q] = "wait"}}

\* Two parties destroy a synchronous event: the loop after firing it and the
\* queue after the sender posted it again.  Until Close nobody holds a deleted
\* event and none is deleted twice or fired twice.
NoUseAfterDelete ==
  /\ \A e \in Events : ev[e].deleted <= 1 /\ ev[e].fired <= 1
  /\ loop \notin {"sweep", "clear"} => \A e \in Referenced : ev[e].deleted = 0

\* SendEvent returns the result of its event, never the initial
\* CAW_ERROR_NOT_AVAILABLE (m_Result is stored before the signal).
SendReturnsResult ==
  [][\A p \in Posters :
       pc[p] = "wait" /\ pc'[p] # "wait" => ev[sending[p]].m_Result = "fired"]_vars

\* Until the reactor is closed every event handed to PostEvent or SendEvent is
\* fired, whatever the interleaving of pushes, writes, reads and pops.
PostedEventsFire ==
  \A e \in Events : ev[e].kind # "unused" ~> ev[e].fired > 0 \/ loop \in Closing

\* A thread blocked in SendEvent returns, unless the reactor is closed.
SendEventReturns ==
  \A p \in Posters : sending[p] # NoEvent ~> sending[p] = NoEvent \/ loop \in Closing

\* StopEventLoop ends the loop thread.
StopClosesReactor == m_bStoppedFlag ~> loop = "closed"

\* OnInput reads one record per edge, so records pile up and a full pipe
\* refuses the next one, which Notify forgets.  A refused record is never the
\* one a sleeping loop thread needs: it never sleeps on a full pipe whose edge
\* it has consumed.
RefusedNotifyHarmless == loop = "wait" /\ ~WakeupPending => ~SendRefused
==============================================================================
